---------------------------- MODULE Spec2Model ----------------------------
(***************************************************************************)
(* reSID, a MOS6581 SID emulator engine: the envelope generators, the      *)
(* waveform generators and the SID clocking that sequences them.           *)
(*                                                                         *)
(* The register types reg4 .. reg24 are unsigned ints of at least 32 bits  *)
(* and cycle_count is an int (siddefs.h); arithmetic that can leave the    *)
(* register's nominal width is reduced as the code reduces it.             *)
(***************************************************************************)
EXTENDS Integers, Sequences, FiniteSets, TLC

VARIABLES
  envelope,   \* voice index -> EnvelopeGenerator fields
  wave,       \* voice index -> WaveformGenerator fields
  bypass,     \* filter.bypass, read by SID::clock
  op,         \* the last operation applied, with the state it was applied to
  nops,       \* number of operations applied so far
  script,     \* position of the host in the scenario a specification runs
  twin,       \* a second SID instance (envelope, wave, bypass)
  extfilt     \* an ExternalFilter object: enabled, vlp, vhp

vars == <<envelope, wave, bypass, op, nops, script, twin, extfilt>>

Voices == 0 .. 2

\* enum { ATTACK, DECAY_SUSTAIN, RELEASE } state
ATTACK == "ATTACK"
DECAY_SUSTAIN == "DECAY_SUSTAIN"
RELEASE == "RELEASE"

\* A loop of the code is run to its end level by level: at level k it makes
\* at most 4^k passes.  Levels(n) is the least level that allows n passes.
RECURSIVE Levels(_)
Levels(n) == IF n <= 1 THEN 0 ELSE 1 + Levels((n + 3) \div 4)

Min(a, b) == IF a < b THEN a ELSE b

(***************************************************************************)
(* EnvelopeGenerator: lookup tables.  TLA+ sequences start at 1, the       *)
(* accessors below take the C index.                                       *)
(***************************************************************************)
rate_counter_period_table ==
  << 9, 32, 63, 95, 149, 220, 267, 313, 392, 977, 1954, 3126, 3906,
     11720, 19532, 31252 >>

rate_counter_period(i) == rate_counter_period_table[i + 1]

exponential_counter_level_table == << 93, 54, 26, 14, 6, 0 >>

exponential_counter_level(i) == exponential_counter_level_table[i + 1]

exponential_counter_segment_table ==
  << 5, 5, 5, 5, 5, 5, 5, 4,   4, 4, 4, 4, 4, 4, 4, 3,
     3, 3, 3, 3, 3, 3, 3, 3,   3, 3, 3, 2, 2, 2, 2, 2,
     2, 2, 2, 2, 2, 2, 2, 2,   2, 2, 2, 2, 2, 2, 2, 2,
     2, 2, 2, 2, 2, 2, 2, 1,   1, 1, 1, 1, 1, 1, 1, 1,
     1, 1, 1, 1, 1, 1, 1, 1,   1, 1, 1, 1, 1, 1, 1, 1,
     1, 1, 1, 1, 1, 1, 1, 1,   1, 1, 1, 1, 1, 1, 0, 0,
     0, 0, 0, 0, 0, 0, 0, 0,   0, 0, 0, 0, 0, 0, 0, 0,
     0, 0, 0, 0, 0, 0, 0, 0,   0, 0, 0, 0, 0, 0, 0, 0,
     0, 0, 0, 0, 0, 0, 0, 0,   0, 0, 0, 0, 0, 0, 0, 0,
     0, 0, 0, 0, 0, 0, 0, 0,   0, 0, 0, 0, 0, 0, 0, 0,
     0, 0, 0, 0, 0, 0, 0, 0,   0, 0, 0, 0, 0, 0, 0, 0,
     0, 0, 0, 0, 0, 0, 0, 0,   0, 0, 0, 0, 0, 0, 0, 0,
     0, 0, 0, 0, 0, 0, 0, 0,   0, 0, 0, 0, 0, 0, 0, 0,
     0, 0, 0, 0, 0, 0, 0, 0,   0, 0, 0, 0, 0, 0, 0, 0,
     0, 0, 0, 0, 0, 0, 0, 0,   0, 0, 0, 0, 0, 0, 0, 0,
     0, 0, 0, 0, 0, 0, 0, 0,   0, 0, 0, 0, 0, 0, 0, 0 >>

exponential_counter_segment(i) == exponential_counter_segment_table[i + 1]

exponential_counter_period_table == << 1, 2, 4, 8, 16, 30 >>

exponential_counter_period(i) == exponential_counter_period_table[i + 1]

sustain_level_table ==
  << 0, 17, 34, 51, 68, 85, 102, 119, 136, 153, 170, 187, 204, 221, 238, 255 >>

sustain_level(i) == sustain_level_table[i + 1]

(***************************************************************************)
(* EnvelopeGenerator::reset                                                *)
(***************************************************************************)
EnvReset ==
  [ envelope_counter    |-> 0,
    attack              |-> 0,
    decay               |-> 0,
    sustain             |-> 0,
    release             |-> 0,
    gate                |-> FALSE,
    rate_counter        |-> 0,
    exponential_counter |-> 0,
    state               |-> RELEASE ]

(***************************************************************************)
(* EnvelopeGenerator register functions.                                   *)
(***************************************************************************)
\* Variant: a set gate bit starts the attack whatever the gate was.
EnvWriteCONTROL_REGRetrigger(e, control) ==
  LET gate_next == (control % 2) = 1
  IN  IF gate_next
        THEN [e EXCEPT !.state = ATTACK, !.exponential_counter = 0,
                       !.gate = gate_next]
      ELSE IF e.gate /\ ~gate_next
        THEN [e EXCEPT !.state = RELEASE, !.exponential_counter = 0,
                       !.gate = gate_next]
      ELSE [e EXCEPT !.gate = gate_next]

\* Variant: flipping the gate resets the rate counter too.
EnvWriteCONTROL_REGResetRate(e, control) ==
  LET gate_next == (control % 2) = 1
  IN  IF ~e.gate /\ gate_next
        THEN [e EXCEPT !.state = ATTACK, !.exponential_counter = 0,
                       !.rate_counter = 0, !.gate = gate_next]
      ELSE IF e.gate /\ ~gate_next
        THEN [e EXCEPT !.state = RELEASE, !.exponential_counter = 0,
                       !.rate_counter = 0, !.gate = gate_next]
      ELSE [e EXCEPT !.gate = gate_next]

\* Variant: turning the gate off leaves the state as it is.
EnvWriteCONTROL_REGNoRelease(e, control) ==
  LET gate_next == (control % 2) = 1
  IN  IF ~e.gate /\ gate_next
        THEN [e EXCEPT !.state = ATTACK, !.exponential_counter = 0,
                       !.gate = gate_next]
      ELSE IF e.gate /\ ~gate_next
        THEN [e EXCEPT !.exponential_counter = 0, !.gate = gate_next]
      ELSE [e EXCEPT !.gate = gate_next]

\* Variant: flipping the gate leaves the exponential counter alone.
EnvWriteCONTROL_REGKeepsExponential(e, control) ==
  LET gate_next == (control % 2) = 1
  IN  IF ~e.gate /\ gate_next
        THEN [e EXCEPT !.state = ATTACK, !.gate = gate_next]
      ELSE IF e.gate /\ ~gate_next
        THEN [e EXCEPT !.state = RELEASE, !.gate = gate_next]
      ELSE [e EXCEPT !.gate = gate_next]

EnvWriteCONTROL_REG(e, control) ==
  LET gate_next == (control % 2) = 1
  IN  IF ~e.gate /\ gate_next
        THEN [e EXCEPT !.state = ATTACK, !.exponential_counter = 0,
                       !.gate = gate_next]
      ELSE IF e.gate /\ ~gate_next
        THEN [e EXCEPT !.state = RELEASE, !.exponential_counter = 0,
                       !.gate = gate_next]
      ELSE [e EXCEPT !.gate = gate_next]

EnvWriteATTACK_DECAY(e, attack_decay) ==
  [e EXCEPT !.attack = (attack_decay \div 16) % 16,
            !.decay  = attack_decay % 16]

EnvWriteSUSTAIN_RELEASE(e, sustain_release) ==
  [e EXCEPT !.sustain = (sustain_release \div 16) % 16,
            !.release = sustain_release % 16]

\* EnvelopeGenerator::output, and readENV which returns it
EnvOutput(e) == e.envelope_counter

EnvReadENV(e) == EnvOutput(e)


(***************************************************************************)
(* EnvelopeGenerator::step_envelope.  The rate step at entry: the ADSR     *)
(* delay bug makes a rate counter at or above the comparison value count   *)
(* on, wrap at 0x8000 and only then reach it.                              *)
(***************************************************************************)
\* Variant: a rate counter at or above the comparison value matches at once.
RateStepNoDelay(rate_counter, rate_period) ==
  IF rate_counter < rate_period THEN rate_period - rate_counter ELSE 1

\* Variant: the divider is reloaded on every call, the rate counter ignored.
RateStepReload(rate_counter, rate_period) == rate_period

RateStep(rate_counter, rate_period) ==
  IF rate_counter < rate_period
    THEN rate_period - rate_counter
    ELSE 32768 + rate_period - rate_counter

\* One pass of step_envelope's while (delta_t) loop.  L carries the locals and
\* the two counters; returned is set where the code returns from inside the loop.
StepEnvelopeBody(L, delta_envelope_max, rate_period, exponential_period) ==
  IF L.delta_t < L.rate_step
    THEN [L EXCEPT !.rate_counter = (L.rate_counter + L.delta_t) % 32768,
                   !.delta_t = 0,
                   !.returned = TRUE]
    ELSE LET exp_next == L.exponential_counter + 1
             wrapped  == exp_next = exponential_period
             stepped  == wrapped /\ delta_envelope_max # 0
             delta_envelope_next ==
               IF stepped THEN L.delta_envelope + 1 ELSE L.delta_envelope
         IN  [ rate_counter        |-> 0,
               delta_t             |-> L.delta_t - L.rate_step,
               rate_step           |-> rate_period,
               exponential_counter |-> IF wrapped THEN 0 ELSE exp_next,
               delta_envelope      |-> delta_envelope_next,
               returned            |->
                 stepped /\ delta_envelope_next = delta_envelope_max ]

\* The while loop, run to its end: at most 4^k passes at level k.
RECURSIVE StepEnvelopeLoop(_, _, _, _, _)
StepEnvelopeLoop(L, delta_envelope_max, rate_period, exponential_period, k) ==
  IF L.returned \/ L.delta_t = 0 THEN L
  ELSE IF k = 0
    THEN StepEnvelopeBody(L, delta_envelope_max, rate_period,
                          exponential_period)
  ELSE LET Q(M) == StepEnvelopeLoop(M, delta_envelope_max, rate_period,
                                    exponential_period, k - 1)
       IN  Q(Q(Q(Q(L))))

\* Result: the counters, the delta_t left (a reference parameter in the code)
\* and the returned delta_envelope.
step_envelope(e, delta_envelope_max, rate_period_index, exponential_period_index, delta_t) ==
  LET rate_period == rate_counter_period(rate_period_index)
      exponential_period ==
        exponential_counter_period(exponential_period_index)
      L0 == [ rate_counter        |-> e.rate_counter,
              delta_t             |-> delta_t,
              rate_step           |-> RateStep(e.rate_counter, rate_period),
              exponential_counter |-> e.exponential_counter,
              delta_envelope      |-> 0,
              returned            |-> FALSE ]
  IN  StepEnvelopeLoop(L0, delta_envelope_max, rate_period,
                       exponential_period, Levels((delta_t \div 9) + 2))

\* Variant: the counter moves the wrong way.
AfterStepWrongSign(e, L, sign) ==
  [e EXCEPT !.rate_counter = L.rate_counter,
            !.exponential_counter = L.exponential_counter,
            !.envelope_counter = e.envelope_counter - sign * L.delta_envelope]

\* The envelope after a step_envelope call that moved the counter by sign.
AfterStep(e, L, sign) ==
  [e EXCEPT !.rate_counter = L.rate_counter,
            !.exponential_counter = L.exponential_counter,
            !.envelope_counter = e.envelope_counter + sign * L.delta_envelope]

(***************************************************************************)
(* EnvelopeGenerator::clock                                                *)
(***************************************************************************)
\* Decay/sustain: the number of steps allowed from envelope_counter.  If the
\* sustain level is raised above the current envelope counter value the new
\* sustain level is zero.
\* Variant: no step at or below min_level (the older envelope generator).
DecayDeltaEnvelopeMaxOld(envelope_counter, min_level) ==
  IF envelope_counter <= min_level THEN 0 ELSE envelope_counter - min_level

DecayDeltaEnvelopeMax(envelope_counter, min_level) ==
  IF envelope_counter - min_level < 0
    THEN envelope_counter
    ELSE envelope_counter - min_level

\* Variant: the sustain level check is left out.
DecayMinLevelNoSustain(envelope_counter, sustain) ==
  exponential_counter_level(exponential_counter_segment(envelope_counter))

DecayMinLevel(envelope_counter, sustain) ==
  LET segment == exponential_counter_segment(envelope_counter)
      min_level == exponential_counter_level(segment)
  IN  IF min_level < sustain_level(sustain)
        THEN sustain_level(sustain) ELSE min_level

\* while (delta_t) of the decay/sustain state
RECURSIVE EnvClockDecaySustain(_, _)
EnvClockDecaySustain(e, delta_t) ==
  IF delta_t = 0 THEN e
  ELSE LET segment == exponential_counter_segment(e.envelope_counter)
           min_level == DecayMinLevel(e.envelope_counter, e.sustain)
           delta_envelope_max ==
             DecayDeltaEnvelopeMax(e.envelope_counter, min_level)
           L == step_envelope(e, delta_envelope_max, e.decay, segment, delta_t)
       IN  EnvClockDecaySustain(AfterStep(e, L, -1), L.delta_t)

\* while (delta_t) of the release state
RECURSIVE EnvClockRelease(_, _)
EnvClockRelease(e, delta_t) ==
  IF delta_t = 0 THEN e
  ELSE LET segment == exponential_counter_segment(e.envelope_counter)
           min_level == exponential_counter_level(segment)
           delta_envelope_max == e.envelope_counter - min_level
           L == step_envelope(e, delta_envelope_max, e.release, segment,
                              delta_t)
       IN  EnvClockRelease(AfterStep(e, L, -1), L.delta_t)

\* The state after the attack branch: DECAY_SUSTAIN once the counter is 0xff.
AttackNextState(envelope_counter) ==
  IF envelope_counter # 255 THEN ATTACK ELSE DECAY_SUSTAIN

EnvClock(e, delta_t) ==
  IF e.state = ATTACK
    THEN LET L == step_envelope(e, 255 - e.envelope_counter, e.attack, 0,
                                delta_t)
             e1 == AfterStep(e, L, 1)
         IN  IF AttackNextState(e1.envelope_counter) = ATTACK
               THEN e1
               ELSE EnvClockDecaySustain(
                      [e1 EXCEPT !.state =
                                   AttackNextState(e1.envelope_counter)],
                      L.delta_t)
  ELSE IF e.state = DECAY_SUSTAIN
    THEN EnvClockDecaySustain(e, delta_t)
  ELSE EnvClockRelease(e, delta_t)


(***************************************************************************)
(* WaveformGenerator.  Bit operations on naturals.                         *)
(***************************************************************************)
Pow2(n) == 2 ^ n

Bit(x, n) == (x \div Pow2(n)) % 2

\* reg24 arithmetic is unsigned int arithmetic.  Every sum and product the
\* specifications below form stays under 2^31, where it equals its value
\* modulo 2^32.
UInt(x) == x

\* WaveformGenerator::WaveformGenerator and SID::SID: voice1(&voice3),
\* voice2(&voice1), voice3(&voice2); source->sync_dest = this.
sync_source(v) == (v + 2) % 3

sync_dest(v) == (v + 1) % 3

\* Variant: the noise register and the accumulator survive the reset.
WaveResetKeepsOscillator(w) ==
  [w EXCEPT !.freq = 0,
            !.pw = 0,
            !.test = FALSE,
            !.ring_mod = FALSE,
            !.sync = FALSE,
            !.msb_rising = FALSE]

\* WaveformGenerator::reset assigns these fields and no other.
WaveReset(w) ==
  [w EXCEPT !.accumulator = 0,
            !.shift_register = 8388600,
            !.freq = 0,
            !.pw = 0,
            !.test = FALSE,
            !.ring_mod = FALSE,
            !.sync = FALSE,
            !.msb_rising = FALSE]

WaveWriteFREQ_LO(w, freq_lo) ==
  [w EXCEPT !.freq = ((w.freq \div 256) * 256) + (freq_lo % 256)]

WaveWriteFREQ_HI(w, freq_hi) ==
  [w EXCEPT !.freq = ((freq_hi % 256) * 256) + (w.freq % 256)]

WaveWritePW_LO(w, pw_lo) ==
  [w EXCEPT !.pw = (((w.pw \div 256) % 16) * 256) + (pw_lo % 256)]

WaveWritePW_HI(w, pw_hi) ==
  [w EXCEPT !.pw = ((pw_hi % 16) * 256) + (w.pw % 256)]

\* Variant: clearing the test bit leaves the noise register at zero.
WaveWriteCONTROL_REGNoRestore(w, control) ==
  LET test_next == Bit(control, 3) = 1
      w1 == [w EXCEPT !.waveform = (control \div 16) % 16,
                      !.ring_mod = Bit(control, 2) = 1,
                      !.sync = Bit(control, 1) = 1,
                      !.test = test_next]
  IN  IF test_next
        THEN [w1 EXCEPT !.accumulator = 0, !.shift_register = 0]
      ELSE w1

\* Variant: setting the test bit clears the noise register only.
WaveWriteCONTROL_REGKeepsAccumulator(w, control) ==
  LET test_next == Bit(control, 3) = 1
      w1 == [w EXCEPT !.waveform = (control \div 16) % 16,
                      !.ring_mod = Bit(control, 2) = 1,
                      !.sync = Bit(control, 1) = 1,
                      !.test = test_next]
  IN  IF test_next
        THEN [w1 EXCEPT !.shift_register = 0]
      ELSE IF w.test
        THEN [w1 EXCEPT !.shift_register = 8388600]
      ELSE w1

\* The test bit zeroes accumulator and noise register; clearing it sets the
\* noise register to 0x7ffff8.
WaveWriteCONTROL_REG(w, control) ==
  LET test_next == Bit(control, 3) = 1
      w1 == [w EXCEPT !.waveform = (control \div 16) % 16,
                      !.ring_mod = Bit(control, 2) = 1,
                      !.sync = Bit(control, 1) = 1,
                      !.test = test_next]
  IN  IF test_next
        THEN [w1 EXCEPT !.accumulator = 0, !.shift_register = 0]
      ELSE IF w.test
        THEN [w1 EXCEPT !.shift_register = 8388600]
      ELSE w1

\* Variant: the bit shifted out of bit 22 is kept.
ShiftOnceNoMask(shift_register) ==
  LET bit0 == (Bit(shift_register, 22) + Bit(shift_register, 17)) % 2
  IN  (shift_register * 2) + bit0

\* One shift of the noise register: bit0 = bit22 EOR bit17.
ShiftOnce(shift_register) ==
  LET bit0 == (Bit(shift_register, 22) + Bit(shift_register, 17)) % 2
  IN  ((shift_register * 2) % 8388608) + bit0

\* for (i = 0; i < shifts; i++): L = [shift_register, i], at most 4^k passes.
RECURSIVE ShiftLoop(_, _, _)
ShiftLoop(L, shifts, k) ==
  IF ~(L.i < shifts) THEN L
  ELSE IF k = 0
    THEN [shift_register |-> ShiftOnce(L.shift_register), i |-> L.i + 1]
  ELSE LET Q(M) == ShiftLoop(M, shifts, k - 1)
       IN  Q(Q(Q(Q(L))))

\* The number of shifts WaveformGenerator::clock makes for delta_accumulator.
WaveShifts(accumulator, delta_accumulator) ==
  LET shift_period == 1048576
      accumulator_next == UInt(accumulator + delta_accumulator)
      shifts == delta_accumulator \div shift_period
      accumulator_prev == UInt(accumulator + shift_period * shifts)
  IN  IF Bit(accumulator_prev, 19) = 0 /\ Bit(accumulator_next, 19) = 1
        THEN shifts + 1 ELSE shifts

\* msb_rising as WaveformGenerator::clock sets it
MsbRising(accumulator, accumulator_next) ==
  Bit(accumulator, 23) = 0 /\ Bit(accumulator_next, 23) = 1

\* Variant: the test bit does not stop the oscillator.
WaveClockIgnoresTest(w, delta_t) ==
  LET delta_accumulator == UInt(delta_t * w.freq)
      accumulator_next == UInt(w.accumulator + delta_accumulator)
      shifts == WaveShifts(w.accumulator, delta_accumulator)
      L == ShiftLoop([shift_register |-> w.shift_register, i |-> 0],
                     shifts, Levels(shifts))
  IN  [w EXCEPT !.shift_register = L.shift_register,
                !.msb_rising = MsbRising(w.accumulator, accumulator_next),
                !.accumulator = accumulator_next % 16777216]

\* Variant: the accumulator is not cut to 24 bits.
WaveClockNoWrap(w, delta_t) ==
  IF w.test THEN w
  ELSE LET delta_accumulator == UInt(delta_t * w.freq)
           accumulator_next == UInt(w.accumulator + delta_accumulator)
           shifts == WaveShifts(w.accumulator, delta_accumulator)
           L == ShiftLoop([shift_register |-> w.shift_register, i |-> 0],
                          shifts, Levels(shifts))
       IN  [w EXCEPT !.shift_register = L.shift_register,
                     !.msb_rising = MsbRising(w.accumulator, accumulator_next),
                     !.accumulator = accumulator_next]

\* WaveformGenerator::clock: nothing while test is set.
WaveClock(w, delta_t) ==
  IF w.test THEN w
  ELSE LET delta_accumulator == UInt(delta_t * w.freq)
           accumulator_next == UInt(w.accumulator + delta_accumulator)
           shifts == WaveShifts(w.accumulator, delta_accumulator)
           L == ShiftLoop([shift_register |-> w.shift_register, i |-> 0],
                          shifts, Levels(shifts))
       IN  [w EXCEPT !.shift_register = L.shift_register,
                     !.msb_rising = MsbRising(w.accumulator, accumulator_next),
                     !.accumulator = accumulator_next % 16777216]

\* Variant: a voice with sync set is zeroed whatever its source does.
WaveSynchronizeAlways(ws, v) ==
  IF ws[v].sync
    THEN [ws[v] EXCEPT !.accumulator = 0]
    ELSE ws[v]

\* WaveformGenerator::synchronize of voice v, reading its sync source in ws
WaveSynchronize(ws, v) ==
  IF ws[v].sync /\ ws[sync_source(v)].msb_rising
    THEN [ws[v] EXCEPT !.accumulator = 0]
    ELSE ws[v]


\* Variant: the ring_mod bit is ignored.
output___TNoRing(ws, v) ==
  LET a == ws[v].accumulator
  IN  ((IF Bit(a, 23) = 1 THEN 16777215 - a ELSE a) \div 2048) % 4096

\* Triangle; ring modulation substitutes the MSB with MSB EOR source MSB.
output___T(ws, v) ==
  LET a == ws[v].accumulator
      msb == IF ws[v].ring_mod
               THEN Bit(a, 23) # Bit(ws[sync_source(v)].accumulator, 23)
               ELSE Bit(a, 23) = 1
  IN  ((IF msb THEN 16777215 - a ELSE a) \div 2048) % 4096

output__S_(ws, v) == ws[v].accumulator \div 4096

output_P__(ws, v) ==
  IF ws[v].accumulator \div 4096 >= ws[v].pw THEN 4095 ELSE 0

\* Variant: output bit 4 is taken from register bit 3.
outputN___WrongTap(ws, v) ==
  LET r == ws[v].shift_register
  IN  (Bit(r, 22) * 2048) + (Bit(r, 20) * 1024) + (Bit(r, 16) * 512)
        + (Bit(r, 13) * 256) + (Bit(r, 11) * 128) + (Bit(r, 7) * 64)
        + (Bit(r, 4) * 32) + (Bit(r, 3) * 16)

\* Noise: register bits 22, 20, 16, 13, 11, 7, 4, 2 in output bits 11..4.
outputN___(ws, v) ==
  LET r == ws[v].shift_register
  IN  (Bit(r, 22) * 2048) + (Bit(r, 20) * 1024) + (Bit(r, 16) * 512)
        + (Bit(r, 13) * 256) + (Bit(r, 11) * 128) + (Bit(r, 7) * 64)
        + (Bit(r, 4) * 32) + (Bit(r, 2) * 16)

\* WaveformGenerator::output for the waveforms that need no sample table
\* (none, triangle, sawtooth, pulse, noise).
WaveOutput(ws, v) ==
  LET waveform == ws[v].waveform
  IN  IF waveform = 1 THEN output___T(ws, v)
      ELSE IF waveform = 2 THEN output__S_(ws, v)
      ELSE IF waveform = 4 THEN output_P__(ws, v)
      ELSE IF waveform = 8 THEN outputN___(ws, v)
      ELSE 0

WaveReadOSC(ws, v) == WaveOutput(ws, v) \div 16


(***************************************************************************)
(* SID::clock.  The SID state is s = [envelope, wave, bypass].             *)
(***************************************************************************)
\* Variant: only the wrap of the accumulator is clocked on.
DeltaTNextToWrap(accumulator, freq) ==
  LET delta_accumulator == 16777216 - accumulator
  IN  IF delta_accumulator % freq # 0
        THEN (delta_accumulator \div freq) + 1
        ELSE delta_accumulator \div freq

\* Variant: the division is not rounded up.
DeltaTNextRoundedDown(accumulator, freq) ==
  ((IF Bit(accumulator, 23) = 1 THEN 16777216 ELSE 8388608) - accumulator)
    \div freq

\* Cycles until the accumulator MSB of a sync source next toggles.
DeltaTNext(accumulator, freq) ==
  LET delta_accumulator ==
        (IF Bit(accumulator, 23) = 1 THEN 16777216 ELSE 8388608) - accumulator
  IN  IF delta_accumulator % freq # 0
        THEN (delta_accumulator \div freq) + 1
        ELSE delta_accumulator \div freq

\* Variant: the voice's own sync and ring_mod bits are tested.
IsSyncSourceOwnBits(ws, v) ==
  ws[v].freq # 0 /\ (ws[v].sync \/ ws[v].ring_mod)

\* It is only necessary to clock on the MSB of an oscillator that has
\* freq != 0 and is a sync source.
IsSyncSource(ws, v) ==
  ws[v].freq # 0 /\ (ws[sync_dest(v)].sync \/ ws[sync_dest(v)].ring_mod)

\* The for loop that finds delta_t_min, voices 0, 1, 2 in turn.
RECURSIVE DeltaTMinFrom(_, _, _)
DeltaTMinFrom(ws, i, delta_t_min) ==
  IF i = 3 THEN delta_t_min
  ELSE IF ~IsSyncSource(ws, i) THEN DeltaTMinFrom(ws, i + 1, delta_t_min)
  ELSE LET delta_t_next == DeltaTNext(ws[i].accumulator, ws[i].freq)
       IN  DeltaTMinFrom(ws, i + 1,
             IF delta_t_next < delta_t_min THEN delta_t_next ELSE delta_t_min)

DeltaTMin(ws, delta_t_osc) == DeltaTMinFrom(ws, 0, delta_t_osc)

\* Variant: each generator is synchronized as soon as it has been clocked.
ClockOscillatorsInterleaved(ws, delta_t_min) ==
  LET c0 == [ws EXCEPT ![0] = WaveClock(ws[0], delta_t_min)]
      s0 == [c0 EXCEPT ![0] = WaveSynchronize(c0, 0)]
      c1 == [s0 EXCEPT ![1] = WaveClock(s0[1], delta_t_min)]
      s1 == [c1 EXCEPT ![1] = WaveSynchronize(c1, 1)]
      c2 == [s1 EXCEPT ![2] = WaveClock(s1[2], delta_t_min)]
  IN        [c2 EXCEPT ![2] = WaveSynchronize(c2, 2)]

\* for (i = 0; i < 3; i++) voice[i]->wave.clock(delta_t_min)
ClockOscillators(ws, delta_t_min) ==
  [v \in Voices |-> WaveClock(ws[v], delta_t_min)]

\* for (i = 0; i < 3; i++) voice[i]->wave.synchronize(), one after the other
SynchronizeOscillators(ws) ==
  LET ws0 == [ws  EXCEPT ![0] = WaveSynchronize(ws, 0)]
      ws1 == [ws0 EXCEPT ![1] = WaveSynchronize(ws0, 1)]
  IN        [ws1 EXCEPT ![2] = WaveSynchronize(ws1, 2)]

\* One pass of while (delta_t_osc > 0): L = [wave, delta_t_osc].
OscBody(L) ==
  LET delta_t_min == DeltaTMin(L.wave, L.delta_t_osc)
  IN  [ wave |-> SynchronizeOscillators(ClockOscillators(L.wave, delta_t_min)),
        delta_t_osc |-> L.delta_t_osc - delta_t_min ]

\* The passes the loop can make in delta_t_osc cycles: a pass takes at least
\* one cycle, and every pass but the last ends on an MSB toggle of a sync
\* source, which lie at least 2^23 - freq accumulator counts apart.
OscPasses(ws, delta_t_osc) ==
  LET Toggles(v) == IF IsSyncSource(ws, v)
                      THEN ((delta_t_osc * ws[v].freq) \div 4194304) + 2
                      ELSE 0
  IN  Min(delta_t_osc, 1 + Toggles(0) + Toggles(1) + Toggles(2))

RECURSIVE OscLoop(_, _)
OscLoop(L, k) ==
  IF ~(L.delta_t_osc > 0) THEN L
  ELSE IF k = 0 THEN OscBody(L)
  ELSE LET Q(M) == OscLoop(M, k - 1)
       IN  Q(Q(Q(Q(L))))

\* Variant: windows of 16 cycles.
DeltaTFltSixteen(bypassed, delta_t) == IF bypassed THEN delta_t ELSE 16

\* Maximum delta cycles for the filter: delta_t when bypassed, else 8.
DeltaTFlt(bypassed, delta_t) == IF bypassed THEN delta_t ELSE 8

\* One pass of while (delta_t > 0): L = [envelope, wave, delta_t, delta_t_flt].
ClockBody(L) ==
  LET delta_t_flt == IF L.delta_t < L.delta_t_flt THEN L.delta_t
                     ELSE L.delta_t_flt
      osc == OscLoop([wave |-> L.wave, delta_t_osc |-> delta_t_flt],
                     Levels(OscPasses(L.wave, delta_t_flt)))
  IN  [ envelope    |-> [v \in Voices |-> EnvClock(L.envelope[v], delta_t_flt)],
        wave        |-> osc.wave,
        delta_t     |-> L.delta_t - delta_t_flt,
        delta_t_flt |-> delta_t_flt,
        filter_clocks |-> L.filter_clocks + 1 ]

RECURSIVE ClockLoop(_, _)
ClockLoop(L, k) ==
  IF ~(L.delta_t > 0) THEN L
  ELSE IF k = 0 THEN ClockBody(L)
  ELSE LET Q(M) == ClockLoop(M, k - 1)
       IN  Q(Q(Q(Q(L))))

\* The state of the loops when SID::clock is entered; filter_clocks counts
\* the filter.clock calls made.
ClockEntry(s, delta_t) ==
  [ envelope      |-> s.envelope,
    wave          |-> s.wave,
    delta_t       |-> delta_t,
    delta_t_flt   |-> DeltaTFlt(s.bypass, delta_t),
    filter_clocks |-> 0 ]

\* Variant: a call takes at least one cycle.
SIDClockAtLeastOne(s, delta_t) ==
  LET d == IF delta_t = 0 THEN 1 ELSE delta_t
      L == ClockLoop(ClockEntry(s, d),
                     Levels((d \div DeltaTFlt(s.bypass, d)) + 1))
  IN  [s EXCEPT !.envelope = L.envelope, !.wave = L.wave]

SIDClock(s, delta_t) ==
  IF delta_t = 0 THEN s
  ELSE LET L == ClockLoop(ClockEntry(s, delta_t),
                          Levels((delta_t \div DeltaTFlt(s.bypass, delta_t)) + 1))
       IN  [s EXCEPT !.envelope = L.envelope, !.wave = L.wave]

\* The number of filter.clock calls SID::clock(delta_t) makes.
SIDClockFilterClocks(s, delta_t) ==
  IF delta_t = 0 THEN 0
  ELSE ClockLoop(ClockEntry(s, delta_t),
                 Levels((delta_t \div DeltaTFlt(s.bypass, delta_t)) + 1)).filter_clocks

\* SID::reset: voice1.reset(); voice2.reset(); voice3.reset(); filter.reset()
SIDReset(s) ==
  [s EXCEPT !.envelope = [v \in Voices |-> EnvReset],
            !.wave = [v \in Voices |-> WaveReset(s.wave[v])]]


\* Voice::writeCONTROL_REG hands the byte to both generators of the voice.
VoiceWriteCONTROL_REG(s, v, control) ==
  [s EXCEPT !.wave[v] = WaveWriteCONTROL_REG(s.wave[v], control),
            !.envelope[v] = EnvWriteCONTROL_REG(s.envelope[v], control)]

\* SID::enable_filter: the filter is bypassed when it is not enabled.
SIDEnableFilter(s, enable) == [s EXCEPT !.bypass = ~enable]


(***************************************************************************)
(* The state of the program and its operations.                            *)
(***************************************************************************)
SIDState == [envelope |-> envelope, wave |-> wave, bypass |-> bypass]

\* The constructors call reset(); WaveformGenerator::reset leaves waveform
\* unassigned, so after construction it holds whatever the memory held.
WaveConstructed(garbage) ==
  WaveReset([ accumulator |-> 0, shift_register |-> 0, freq |-> 0, pw |-> 0,
              waveform |-> garbage, test |-> FALSE, ring_mod |-> FALSE,
              sync |-> FALSE, msb_rising |-> FALSE ])

\* The values the unassigned waveform selector is taken to hold.
UninitWaveforms == {0, 8}

Constructed ==
  { [v \in Voices |-> WaveConstructed(g)] : g \in UninitWaveforms }

\* SID::SID: three voices and a filter that is not bypassed.
Constructor ==
  /\ envelope = [v \in Voices |-> EnvReset]
  /\ wave \in Constructed
  /\ bypass = FALSE
  /\ op = [name |-> "SID", voice |-> 0, arg |-> 0,
           pre |-> [envelope |-> envelope, wave |-> wave, bypass |-> bypass]]
  /\ nops = 0
  /\ twin = [envelope |-> envelope, wave |-> wave, bypass |-> bypass]

(***************************************************************************)
(* ExternalFilter.  The filter state is x = [enabled, vlp, vhp].           *)
(***************************************************************************)
\* Variant: the shift rounds to the nearest integer.
ShiftRightRounded(x, n) == (x + Pow2(n - 1)) \div Pow2(n)

\* x >> n of a signed int: the arithmetic shift rounds towards minus infinity.
ShiftRight(x, n) == x \div Pow2(n)

\* The value of the int x converted to short: its low 16 bits, two's complement.
ToShort(x) == ((x + 32768) % 65536) - 32768

\* ExternalFilterCoefficients(w0lp, w0hp, T) for w0lp = 100000, w0hp = 100 and
\* T = 1/1e6: 1 - exp(-0.1) = 0.09516, 1 - exp(-0.0001) = 0.000099995.
t1 == [shiftlp |-> 7, shifthp |-> 17, mullp |-> 12, mulhp |-> 13]

\* The coefficients for T = MAX_CYCLES/1e6: 1 - exp(-1) = 0.63212,
\* 1 - exp(-0.001) = 0.0009995.
tmax == [shiftlp |-> 4, shifthp |-> 13, mullp |-> 10, mulhp |-> 8]

MAX_CYCLES == 10

\* Variant: vlp is updated first and vhp follows the new vlp.
ExtUpdateVlpFirst(x, c, vi) ==
  LET vlp == x.vlp + ShiftRight(c.mullp * ((vi * 2048) - x.vlp), c.shiftlp)
      vhp == x.vhp + ShiftRight(c.mulhp * (vlp - x.vhp), c.shifthp)
  IN  [x EXCEPT !.vhp = vhp, !.vlp = vlp]

\* One update of the two states with the coefficient set c: vhp first, from
\* the vlp of before the update.
ExtUpdate(x, c, vi) ==
  LET vhp == x.vhp + ShiftRight(c.mulhp * (x.vlp - x.vhp), c.shifthp)
      vlp == x.vlp + ShiftRight(c.mullp * ((vi * 2048) - x.vlp), c.shiftlp)
  IN  [x EXCEPT !.vhp = vhp, !.vlp = vlp]

\* ExternalFilter::clock(short vi)
ExtClockOne(x, vi) ==
  IF ~x.enabled THEN [x EXCEPT !.vlp = vi * 2048, !.vhp = 0]
  ELSE ExtUpdate(x, t1, vi)

\* One pass of while (delta_t) with delta_t >= MAX_CYCLES, and one pass of
\* while (delta_t--) below it.  L = [x, delta_t].
ExtClockBody(L, vi) ==
  IF L.delta_t < MAX_CYCLES
    THEN [x |-> ExtClockOne(L.x, vi), delta_t |-> L.delta_t - 1]
    ELSE [x |-> ExtUpdate(L.x, tmax, vi), delta_t |-> L.delta_t - MAX_CYCLES]

\* The loops of clock(delta_t, vi), at most 4^k passes.
RECURSIVE ExtClockLoop(_, _, _)
ExtClockLoop(L, vi, k) ==
  IF L.delta_t = 0 THEN L
  ELSE IF k = 0 THEN ExtClockBody(L, vi)
  ELSE LET Q(M) == ExtClockLoop(M, vi, k - 1)
       IN  Q(Q(Q(Q(L))))

\* Variant: a disabled filter keeps its high-pass state.
ExtClockKeepsVhp(x, delta_t, vi) ==
  IF ~x.enabled THEN [x EXCEPT !.vlp = vi * 2048]
  ELSE ExtClockLoop([x |-> x, delta_t |-> delta_t], vi,
                    Levels((delta_t \div MAX_CYCLES)
                             + (delta_t % MAX_CYCLES))).x

\* ExternalFilter::clock(cycle_count delta_t, short vi)
ExtClock(x, delta_t, vi) ==
  IF ~x.enabled THEN [x EXCEPT !.vlp = vi * 2048, !.vhp = 0]
  ELSE ExtClockLoop([x |-> x, delta_t |-> delta_t], vi,
                    Levels((delta_t \div MAX_CYCLES)
                             + (delta_t % MAX_CYCLES))).x

\* ExternalFilter::output: the int (vlp - vhp) >> 11 returned as a short.
ExtOutput(x) == ToShort(ShiftRight(x.vlp - x.vhp, 11))

\* ExternalFilter::enable_filter
ExtEnableFilter(x, enable) == [x EXCEPT !.enabled = enable]

\* ExternalFilter::ExternalFilter: enabled, both states 0.
ExternalFilterConstructor ==
  extfilt = [enabled |-> TRUE, vlp |-> 0, vhp |-> 0]

\* Specifications that run no scenario leave script at this value.
NoScript == [pc |-> "none", elapsed |-> 0, calls |-> 0]

Done(name, v, arg) ==
  /\ op' = [name |-> name, voice |-> v, arg |-> arg, pre |-> SIDState]
  /\ nops' = nops + 1

(***************************************************************************)
(* SpecEnv: one EnvelopeGenerator (that of voice 1, index 0) driven        *)
(* through its register functions, reset and clock.                        *)
(***************************************************************************)
MaxEnvOps == 5

EnvControlInputs == {0, 1}
EnvADInputs == {0, 240}
EnvSRInputs == {0, 128, 255}
EnvDeltas == {1, 8, 20000}

InitEnv == Constructor /\ ExternalFilterConstructor /\ script = NoScript

EnvelopeWriteCONTROL_REG(control) ==
  /\ nops < MaxEnvOps
  /\ envelope' = [envelope EXCEPT ![0] = EnvWriteCONTROL_REG(@, control)]
  /\ Done("writeCONTROL_REG", 0, control)
  /\ UNCHANGED <<wave, bypass, script, twin, extfilt>>

EnvelopeWriteATTACK_DECAY(attack_decay) ==
  /\ nops < MaxEnvOps
  /\ envelope' = [envelope EXCEPT ![0] = EnvWriteATTACK_DECAY(@, attack_decay)]
  /\ Done("writeATTACK_DECAY", 0, attack_decay)
  /\ UNCHANGED <<wave, bypass, script, twin, extfilt>>

EnvelopeWriteSUSTAIN_RELEASE(sustain_release) ==
  /\ nops < MaxEnvOps
  /\ envelope' =
       [envelope EXCEPT ![0] = EnvWriteSUSTAIN_RELEASE(@, sustain_release)]
  /\ Done("writeSUSTAIN_RELEASE", 0, sustain_release)
  /\ UNCHANGED <<wave, bypass, script, twin, extfilt>>

EnvelopeClock(delta_t) ==
  /\ nops < MaxEnvOps
  /\ envelope' = [envelope EXCEPT ![0] = EnvClock(@, delta_t)]
  /\ Done("clock", 0, delta_t)
  /\ UNCHANGED <<wave, bypass, script, twin, extfilt>>

EnvelopeReset ==
  /\ nops < MaxEnvOps
  /\ envelope' = [envelope EXCEPT ![0] = EnvReset]
  /\ Done("reset", 0, 0)
  /\ UNCHANGED <<wave, bypass, script, twin, extfilt>>

NextEnv ==
  \/ \E control \in EnvControlInputs : EnvelopeWriteCONTROL_REG(control)
  \/ \E attack_decay \in EnvADInputs : EnvelopeWriteATTACK_DECAY(attack_decay)
  \/ \E sustain_release \in EnvSRInputs :
       EnvelopeWriteSUSTAIN_RELEASE(sustain_release)
  \/ \E delta_t \in EnvDeltas : EnvelopeClock(delta_t)
  \/ EnvelopeReset

SpecEnv == InitEnv /\ [][NextEnv]_vars


(***************************************************************************)
(* Properties of the envelope generator, under SpecEnv.                    *)
(***************************************************************************)
E == envelope[0]
P == op.pre.envelope[0]
Clocked == op.name = "clock"

\* The rate period the state selects.
SelectedRatePeriod(e) ==
  rate_counter_period(IF e.state = ATTACK THEN e.attack
                      ELSE IF e.state = DECAY_SUSTAIN THEN e.decay
                      ELSE e.release)

\* The exponential period the state selects.
SelectedExpPeriod(e) ==
  IF e.state = ATTACK THEN 1
  ELSE exponential_counter_period(
         exponential_counter_segment(e.envelope_counter))

\* Whether the envelope counter may step in e.
StepAllowed(e) ==
  IF e.state = ATTACK THEN e.envelope_counter # 255
  ELSE IF e.state = DECAY_SUSTAIN
    THEN e.envelope_counter # DecayMinLevel(e.envelope_counter, e.sustain)
  ELSE e.envelope_counter # 0

Delayed(e) == e.rate_counter >= SelectedRatePeriod(e)

DelayWait(e) == 32768 + SelectedRatePeriod(e) - e.rate_counter

\* C4: ADSR delay.  Clocked with rate_counter >= the selected rate period,
\* the rate counter counts on and wraps at 0x8000; the envelope counter does
\* not step during the first 0x8000 + rate_period - rate_counter - 1 cycles and
\* the rate counter matches (is zeroed, the exponential counter counts) on
\* exactly the cycle after them.
Thm_C4_AdsrDelay ==
  /\ Delayed(E) =>
       /\ \A d \in {1, 8, DelayWait(E) - 1} :
            LET f == EnvClock(E, d)
            IN  /\ f.envelope_counter = E.envelope_counter
                /\ f.exponential_counter = E.exponential_counter
                /\ f.rate_counter = (E.rate_counter + d) % 32768
       /\ LET f == EnvClock(E, DelayWait(E))
              last == E.exponential_counter + 1 = SelectedExpPeriod(E)
          IN  /\ f.rate_counter = 0
              /\ f.exponential_counter =
                   IF last THEN 0 ELSE E.exponential_counter + 1
              /\ f.envelope_counter =
                   IF last /\ StepAllowed(E)
                     THEN (IF E.state = ATTACK THEN E.envelope_counter + 1
                           ELSE E.envelope_counter - 1)
                     ELSE E.envelope_counter
  /\ (Clocked /\ Delayed(P) /\ op.arg < DelayWait(P)) =>
       /\ E.envelope_counter = P.envelope_counter
       /\ E.rate_counter = (P.rate_counter + op.arg) % 32768

\* A clock that ran through the wrap at 0x8000 and then stepped the envelope.
Wit_C4_AdsrDelay ==
  /\ Clocked /\ Delayed(P) /\ op.arg >= DelayWait(P)
  /\ E.envelope_counter # P.envelope_counter

\* C5: the envelope counter stays in 0 .. 0xff; a clock that stays in ATTACK
\* (as every clock of at most 8 cycles started in ATTACK with the counter
\* below 0xff does) never decreases it, a clock in RELEASE never increases it.
Thm_C5_CounterRange ==
  /\ E.envelope_counter \in 0 .. 255
  /\ (Clocked /\ P.state = ATTACK /\ (E.state = ATTACK \/ op.arg <= 8)) =>
       E.envelope_counter >= P.envelope_counter
  /\ (Clocked /\ P.state = RELEASE) =>
       /\ E.state = RELEASE
       /\ E.envelope_counter <= P.envelope_counter

\* A clock in ATTACK that raised the counter to 0xff and one in RELEASE that
\* lowered it to 0 are both behind the state.
Wit_C5_CounterRange ==
  /\ Clocked /\ P.state = RELEASE
  /\ P.envelope_counter > 0 /\ E.envelope_counter = 0

\* C33: in every reachable envelope state rate_counter is in [0, 0x7FFF] and
\* exponential_counter is strictly below the exponential period that applies
\* to the current state (1 in ATTACK, the period of the envelope counter's
\* segment otherwise), so the equality test that steps the envelope is never
\* skipped.
Thm_C33_CountersBelowPeriod ==
  \A v \in Voices :
    /\ envelope[v].rate_counter \in 0 .. 32767
    /\ envelope[v].exponential_counter
         \in 0 .. (SelectedExpPeriod(envelope[v]) - 1)

\* The gate was just turned on over an envelope whose exponential counter
\* was part-way through a period longer than 1.
Wit_C33_CountersBelowPeriod ==
  /\ op.name = "writeCONTROL_REG" /\ E.state = ATTACK
  /\ P.state # ATTACK /\ P.exponential_counter > 0
  /\ P.rate_counter > 0 /\ E.exponential_counter = 0

\* C36: gate and envelope state agree in every reachable state: gate = 0
\* exactly when the state is RELEASE, and gate = 1 exactly when the state is
\* ATTACK or DECAY_SUSTAIN.
Thm_C36_GateMatchesState ==
  \A v \in Voices :
    /\ envelope[v].state \in {ATTACK, DECAY_SUSTAIN, RELEASE}
    /\ ~envelope[v].gate <=> envelope[v].state = RELEASE
    /\ envelope[v].gate <=> envelope[v].state \in {ATTACK, DECAY_SUSTAIN}

\* The gate was just turned off on a generator that a clock had taken from
\* ATTACK into DECAY_SUSTAIN.
Wit_C36_GateMatchesState ==
  /\ op.name = "writeCONTROL_REG" /\ op.arg % 2 = 0
  /\ P.gate /\ P.state = DECAY_SUSTAIN /\ P.envelope_counter > 0
  /\ ~E.gate /\ E.state = RELEASE

\* The cycles until the envelope counter of e next steps, when it may step.
FirstStepTime(e) ==
  RateStep(e.rate_counter, SelectedRatePeriod(e))
    + (SelectedExpPeriod(e) - 1 - e.exponential_counter)
        * SelectedRatePeriod(e)

Thm_C8_StateTransitions ==
  /\ (op.name \in {"clock", "writeCONTROL_REG", "writeATTACK_DECAY",
                   "writeSUSTAIN_RELEASE"} /\ E.state # P.state) =>
       \/ /\ Clocked /\ P.state = ATTACK /\ E.state = DECAY_SUSTAIN
          /\ op.arg <= 8 => E.envelope_counter = 255
       \/ /\ op.name = "writeCONTROL_REG"
          /\ P.gate /\ ~E.gate /\ op.arg % 2 = 0
          /\ E.state = RELEASE
       \/ /\ op.name = "writeCONTROL_REG"
          /\ ~P.gate /\ E.gate /\ op.arg % 2 = 1
          /\ P.state = RELEASE /\ E.state = ATTACK
  /\ (Clocked /\ E.state = ATTACK) => E.envelope_counter # 255
  /\ (op.name = "writeCONTROL_REG" /\ P.gate = (op.arg % 2 = 1)) =>
       E.state = P.state

\* A CONTROL write with the gate bit set met a generator in DECAY_SUSTAIN, and
\* a clock took one from ATTACK to DECAY_SUSTAIN.
Wit_C8_StateTransitions ==
  \/ /\ op.name = "writeCONTROL_REG" /\ op.arg % 2 = 1
     /\ P.state = DECAY_SUSTAIN /\ P.envelope_counter < 255
  \/ Clocked /\ P.state = ATTACK /\ E.state = DECAY_SUSTAIN /\ op.arg <= 8

\* C9: a CONTROL write that flips the gate zeroes exponential_counter and
\* leaves rate_counter and envelope_counter as they were; one that does not
\* flip the gate leaves the envelope generator as it was.
Thm_C9_ControlWrite ==
  op.name = "writeCONTROL_REG" =>
    IF P.gate # (op.arg % 2 = 1)
      THEN /\ E.exponential_counter = 0
           /\ E.rate_counter = P.rate_counter
           /\ E.envelope_counter = P.envelope_counter
           /\ E.gate = (op.arg % 2 = 1)
      ELSE E = P

\* A gate flip met a running rate counter and a running exponential counter.
Wit_C9_ControlWrite ==
  /\ op.name = "writeCONTROL_REG" /\ P.gate # E.gate
  /\ P.exponential_counter > 0 /\ P.rate_counter > 0


(***************************************************************************)
(* Spec: the three voices driven through frequency and control writes,    *)
(* the filter switch, clock and reset.                                     *)
(***************************************************************************)
MaxOps == 3

FreqHiInputs == {32, 128}

ControlInputs == {2, 129}

ClockDeltas == {16, 31, 255}

Init == Constructor /\ ExternalFilterConstructor /\ script = NoScript

WriteFREQ_HI(v, freq_hi) ==
  /\ nops < MaxOps
  /\ wave' = [wave EXCEPT ![v] = WaveWriteFREQ_HI(wave[v], freq_hi)]
  /\ Done("writeFREQ_HI", v, freq_hi)
  /\ UNCHANGED <<envelope, bypass, script, twin, extfilt>>

WriteCONTROL_REG(v, control) ==
  /\ nops < MaxOps
  /\ \E s \in {VoiceWriteCONTROL_REG(SIDState, v, control)} :
       envelope' = s.envelope /\ wave' = s.wave
  /\ Done("writeCONTROL_REG", v, control)
  /\ UNCHANGED <<bypass, script, twin, extfilt>>

EnableFilter(enable) ==
  /\ nops < MaxOps
  /\ bypass' = SIDEnableFilter(SIDState, enable).bypass
  /\ Done("enable_filter", 0, IF enable THEN 1 ELSE 0)
  /\ UNCHANGED <<envelope, wave, script, twin, extfilt>>

Clock(delta_t) ==
  /\ nops < MaxOps
  /\ \E s \in {SIDClock(SIDState, delta_t)} :
       envelope' = s.envelope /\ wave' = s.wave
  /\ Done("clock", 0, delta_t)
  /\ UNCHANGED <<bypass, script, twin, extfilt>>

Reset ==
  /\ nops < MaxOps
  /\ \E s \in {SIDReset(SIDState)} :
       envelope' = s.envelope /\ wave' = s.wave
  /\ Done("reset", 0, 0)
  /\ UNCHANGED <<bypass, script, twin, extfilt>>

Next ==
  \/ \E v \in Voices, freq_hi \in FreqHiInputs : WriteFREQ_HI(v, freq_hi)
  \/ \E v \in Voices, control \in ControlInputs : WriteCONTROL_REG(v, control)
  \/ \E enable \in BOOLEAN : EnableFilter(enable)
  \/ \E delta_t \in ClockDeltas : Clock(delta_t)
  \/ Reset

Spec == Init /\ [][Next]_vars

\* The call lengths the additivity statement is tried on.
AddDeltas == {1, 2, 16}

\* C1: additivity of time.  In every reachable state, with the filter
\* bypassed or not, clock(a) followed by clock(b) leaves the accumulators,
\* shift registers, msb_rising flags and all envelope generator state as one
\* clock(a + b) does.
Orig_C1_Additivity ==
  \A a \in AddDeltas, b \in AddDeltas :
    SIDClock(SIDClock(SIDState, a), b) = SIDClock(SIDState, a + b)

\* C1, the noise registers only: they differ once delta_t * freq may pass 2^19.
Orig_C1_AdditivityShift ==
  \A a \in AddDeltas, b \in AddDeltas :
    LET split == SIDClock(SIDClock(SIDState, a), b).wave
        whole == SIDClock(SIDState, a + b).wave
    IN  \A v \in Voices : split[v].shift_register = whole[v].shift_register


(***************************************************************************)
(* SpecSync: hard sync.  Voice 1 (index 0) is the sync source of voice 2   *)
(* (index 1); after the register writes the chip is clocked in calls of    *)
(* several lengths.                                                        *)
(***************************************************************************)
MaxSyncCalls == 3

MaxSyncCycles == 2100

SyncSourceFreqHi == {32, 48}

SyncPieces == {1, 8, 500, 1023, 1024}

InitSync ==
  Constructor /\ ExternalFilterConstructor /\ script = [pc |-> "freq_src", elapsed |-> 0, calls |-> 0]

SyncStep(from, to) ==
  /\ script.pc = from
  /\ script' = [script EXCEPT !.pc = to]

SyncWriteSourceFREQ_HI(freq_hi) ==
  /\ SyncStep("freq_src", "freq_dst")
  /\ wave' = [wave EXCEPT ![0] = WaveWriteFREQ_HI(wave[0], freq_hi)]
  /\ Done("writeFREQ_HI", 0, freq_hi)
  /\ UNCHANGED <<envelope, bypass, twin, extfilt>>

SyncWriteDestFREQ_HI ==
  /\ SyncStep("freq_dst", "control_src")
  /\ wave' = [wave EXCEPT ![1] = WaveWriteFREQ_HI(wave[1], 8)]
  /\ Done("writeFREQ_HI", 1, 8)
  /\ UNCHANGED <<envelope, bypass, twin, extfilt>>

\* sawtooth on the source
SyncWriteSourceCONTROL_REG ==
  /\ SyncStep("control_src", "control_dst")
  /\ \E s \in {VoiceWriteCONTROL_REG(SIDState, 0, 32)} :
       envelope' = s.envelope /\ wave' = s.wave
  /\ Done("writeCONTROL_REG", 0, 32)
  /\ UNCHANGED <<bypass, twin, extfilt>>

\* sawtooth and sync on the destination
SyncWriteDestCONTROL_REG ==
  /\ SyncStep("control_dst", "filter")
  /\ \E s \in {VoiceWriteCONTROL_REG(SIDState, 1, 34)} :
       envelope' = s.envelope /\ wave' = s.wave
  /\ Done("writeCONTROL_REG", 1, 34)
  /\ UNCHANGED <<bypass, twin, extfilt>>

SyncEnableFilter(enable) ==
  /\ SyncStep("filter", "run")
  /\ bypass' = SIDEnableFilter(SIDState, enable).bypass
  /\ Done("enable_filter", 0, IF enable THEN 1 ELSE 0)
  /\ UNCHANGED <<envelope, wave, twin, extfilt>>

SyncClock(delta_t) ==
  /\ script.pc = "run"
  /\ script.calls < MaxSyncCalls
  /\ script.elapsed + delta_t <= MaxSyncCycles
  /\ script' = [script EXCEPT !.elapsed = @ + delta_t, !.calls = @ + 1]
  /\ \E s \in {SIDClock(SIDState, delta_t)} :
       envelope' = s.envelope /\ wave' = s.wave
  /\ Done("clock", 0, delta_t)
  /\ UNCHANGED <<bypass, twin, extfilt>>

NextSync ==
  \/ \E freq_hi \in SyncSourceFreqHi : SyncWriteSourceFREQ_HI(freq_hi)
  \/ SyncWriteDestFREQ_HI
  \/ SyncWriteSourceCONTROL_REG
  \/ SyncWriteDestCONTROL_REG
  \/ \E enable \in BOOLEAN : SyncEnableFilter(enable)
  \/ \E delta_t \in SyncPieces : SyncClock(delta_t)

SpecSync == InitSync /\ [][NextSync]_vars

\* Bit 23 of a free-running accumulator of frequency freq after t cycles.
FreeMsb(freq, t) == ((freq * t) \div 8388608) % 2

\* The last cycle up to t on which that bit went 0 -> 1, 0 if there is none.
LastRise(freq, t) ==
  LET rises == { u \in 1 .. t :
                   FreeMsb(freq, u - 1) = 0 /\ FreeMsb(freq, u) = 1 }
  IN  IF rises = {} THEN 0
      ELSE CHOOSE u \in rises : \A w \in rises : w <= u

MaxS2Calls == 2

MaxS2Cycles == 31260

S2Pieces == {1, 8, 31243, 31244, 31251}

InitS2 ==
  Constructor /\ ExternalFilterConstructor /\ script = [pc |-> "filter", elapsed |-> 0, calls |-> 0]

S2EnableFilter(enable) ==
  /\ script.pc = "filter"
  /\ script' = [script EXCEPT !.pc = "write_ad00"]
  /\ bypass' = SIDEnableFilter(SIDState, enable).bypass
  /\ Done("enable_filter", 0, IF enable THEN 1 ELSE 0)
  /\ UNCHANGED <<envelope, wave, twin, extfilt>>

S2WriteAD00 ==
  /\ script.pc = "write_ad00"
  /\ script' = [script EXCEPT !.pc = "gate"]
  /\ envelope' = [envelope EXCEPT ![0] = EnvWriteATTACK_DECAY(envelope[0], 0)]
  /\ Done("writeATTACK_DECAY", 0, 0)
  /\ UNCHANGED <<wave, bypass, twin, extfilt>>

S2GateOn ==
  /\ script.pc = "gate"
  /\ script' = [script EXCEPT !.pc = "clock8"]
  /\ \E s \in {VoiceWriteCONTROL_REG(SIDState, 0, 1)} :
       envelope' = s.envelope /\ wave' = s.wave
  /\ Done("writeCONTROL_REG", 0, 1)
  /\ UNCHANGED <<bypass, twin, extfilt>>

\* the first 8 cycles, in one call or several
S2Clock8(delta_t) ==
  /\ script.pc = "clock8"
  /\ script.elapsed + delta_t <= 8
  /\ script' = [script EXCEPT
                  !.elapsed = IF @ + delta_t = 8 THEN 0 ELSE @ + delta_t,
                  !.pc = IF script.elapsed + delta_t = 8
                           THEN "write_adf0" ELSE @]
  /\ \E s \in {SIDClock(SIDState, delta_t)} :
       envelope' = s.envelope /\ wave' = s.wave
  /\ Done("clock", 0, delta_t)
  /\ UNCHANGED <<bypass, twin, extfilt>>

S2WriteADF0 ==
  /\ script.pc = "write_adf0"
  /\ script' = [script EXCEPT !.pc = "run"]
  /\ envelope' = [envelope EXCEPT
                    ![0] = EnvWriteATTACK_DECAY(envelope[0], 240)]
  /\ Done("writeATTACK_DECAY", 0, 240)
  /\ UNCHANGED <<wave, bypass, twin, extfilt>>

S2Clock(delta_t) ==
  /\ script.pc = "run"
  /\ script.calls < MaxS2Calls
  /\ script.elapsed + delta_t <= MaxS2Cycles
  /\ script' = [script EXCEPT !.elapsed = @ + delta_t, !.calls = @ + 1]
  /\ \E s \in {SIDClock(SIDState, delta_t)} :
       envelope' = s.envelope /\ wave' = s.wave
  /\ Done("clock", 0, delta_t)
  /\ UNCHANGED <<bypass, twin, extfilt>>

NextS2 ==
  \/ \E enable \in BOOLEAN : S2EnableFilter(enable)
  \/ S2WriteAD00
  \/ S2GateOn
  \/ \E delta_t \in S2Pieces : S2Clock8(delta_t)
  \/ S2WriteADF0
  \/ \E delta_t \in S2Pieces : S2Clock(delta_t)

SpecS2 == InitS2 /\ [][NextS2]_vars

\* C3 as stated: 31251 cycles after the write of 0xf0 the envelope counter is
\* still 0, one cycle later it is 1.
Orig_C3_ScenarioS2 ==
  script.pc = "run" =>
    /\ script.elapsed = 31251 => envelope[0].envelope_counter = 0
    /\ script.elapsed = 31252 => envelope[0].envelope_counter = 1

\* C3 amended: at the write of 0xf0 the rate counter is 8, below the new
\* period 31252, so it counts on to the period without wrapping at 0x8000:
\* the envelope counter is still 0 after 31243 cycles and 1 from the 31244th
\* cycle on.
Thm_C3_ScenarioS2 ==
  script.pc = "run" =>
    IF script.elapsed <= 31243
      THEN /\ envelope[0].envelope_counter = 0
           /\ envelope[0].rate_counter = 8 + script.elapsed
      ELSE /\ envelope[0].envelope_counter = 1
           /\ envelope[0].rate_counter = script.elapsed - 31244

\* One further cycle after the 31243rd made the counter 1.
Wit_C3_ScenarioS2 ==
  /\ script.pc = "run" /\ script.elapsed = 31244
  /\ op.name = "clock" /\ op.arg = 1
  /\ op.pre.envelope[0].envelope_counter = 0
  /\ envelope[0].envelope_counter = 1

(***************************************************************************)
(* SpecSustain: ATTACK_DECAY and SUSTAIN_RELEASE are written, the gate is  *)
(* turned on and the envelope generator of voice 1 is clocked.             *)
(***************************************************************************)
MaxSustainCalls == 3

MaxSustainCycles == 1000008

SustainADInputs == {34, 92, 153, 240}

SustainPieces == {8, 500000, 1000000}

InitSustain ==
  Constructor /\ ExternalFilterConstructor /\ script = [pc |-> "write_ad", elapsed |-> 0, calls |-> 0]

SustainWriteATTACK_DECAY(attack_decay) ==
  /\ script.pc = "write_ad"
  /\ script' = [script EXCEPT !.pc = "write_sr"]
  /\ envelope' = [envelope EXCEPT
                    ![0] = EnvWriteATTACK_DECAY(envelope[0], attack_decay)]
  /\ Done("writeATTACK_DECAY", 0, attack_decay)
  /\ UNCHANGED <<wave, bypass, twin, extfilt>>

SustainWriteSUSTAIN_RELEASE(S) ==
  /\ script.pc = "write_sr"
  /\ script' = [script EXCEPT !.pc = "gate"]
  /\ envelope' = [envelope EXCEPT
                    ![0] = EnvWriteSUSTAIN_RELEASE(envelope[0], S * 16)]
  /\ Done("writeSUSTAIN_RELEASE", 0, S * 16)
  /\ UNCHANGED <<wave, bypass, twin, extfilt>>

SustainGateOn ==
  /\ script.pc = "gate"
  /\ script' = [script EXCEPT !.pc = "run"]
  /\ envelope' = [envelope EXCEPT ![0] = EnvWriteCONTROL_REG(envelope[0], 1)]
  /\ Done("writeCONTROL_REG", 0, 1)
  /\ UNCHANGED <<wave, bypass, twin, extfilt>>

SustainClock(delta_t) ==
  /\ script.pc = "run"
  /\ script.calls < MaxSustainCalls
  /\ script.elapsed + delta_t <= MaxSustainCycles
  /\ script' = [script EXCEPT !.elapsed = @ + delta_t, !.calls = @ + 1]
  /\ envelope' = [envelope EXCEPT ![0] = EnvClock(envelope[0], delta_t)]
  /\ Done("clock", 0, delta_t)
  /\ UNCHANGED <<wave, bypass, twin, extfilt>>

NextSustain ==
  \/ \E attack_decay \in SustainADInputs :
       SustainWriteATTACK_DECAY(attack_decay)
  \/ \E S \in 0 .. 15 : SustainWriteSUSTAIN_RELEASE(S)
  \/ SustainGateOn
  \/ \E delta_t \in SustainPieces : SustainClock(delta_t)

SpecSustain == InitSustain /\ [][NextSustain]_vars

\* The rate counter matches a decay from 0xff down to level takes: each
\* step from a counter value takes its segment's exponential period.
DecayMatches(level) ==
  LET N(period) ==
        period * Cardinality(
          { c \in level + 1 .. 255 :
              exponential_counter_period(exponential_counter_segment(c))
                = period })
  IN  N(1) + N(2) + N(4) + N(8) + N(16) + N(30)

\* The cycles from gate-on after reset until the sustain level is reached.
SustainCycles(e) ==
  (255 * rate_counter_period(e.attack))
    + (DecayMatches(sustain_level(e.sustain)) * rate_counter_period(e.decay))

\* C6 as stated: for every sustain value and every attack/decay setting the
\* envelope counter equals sustain_level[S] once the gate has been on for
\* 10^6 cycles.
Orig_C6_SustainConvergence ==
  (script.pc = "run" /\ script.elapsed >= 1000000) =>
    envelope[0].envelope_counter = sustain_level(envelope[0].sustain)

\* C6 amended: from reset, with ATTACK_DECAY and SUSTAIN_RELEASE written
\* before the gate is turned on and no write after it, the envelope counter
\* equals sustain_level[S] once 255 attack periods and the decay's rate
\* periods down to the level have passed; after 10^6 cycles that is so for
\* the settings whose sum is at most 10^6, and until the sum has passed the
\* generator is still in ATTACK or above the level.
Thm_C6_SustainConvergence ==
  script.pc = "run" =>
    LET e == envelope[0]
    IN  /\ script.elapsed >= SustainCycles(e) =>
             /\ e.envelope_counter = sustain_level(e.sustain)
             /\ e.state = DECAY_SUSTAIN
        /\ (script.elapsed >= 1000000 /\ SustainCycles(e) <= 1000000) =>
             e.envelope_counter = sustain_level(e.sustain)
        /\ script.elapsed < SustainCycles(e) =>
             \/ e.state = ATTACK
             \/ e.envelope_counter > sustain_level(e.sustain)

\* A second of gate-on at attack 9, decay 9, sustain 8 ended at the level.
Wit_C6_SustainConvergence ==
  /\ script.pc = "run" /\ script.elapsed >= 1000000
  /\ envelope[0].attack = 9 /\ envelope[0].decay = 9
  /\ envelope[0].sustain = 8
  /\ SustainCycles(envelope[0]) <= 1000000
  /\ envelope[0].state = DECAY_SUSTAIN
  /\ envelope[0].envelope_counter = 136


(***************************************************************************)
(* SpecReset: two SID instances.  Each is first driven on its own, then    *)
(* both are reset and driven by the same operations.                       *)
(***************************************************************************)
MaxHistoryOps == 2

MaxAfterOps == 2

\* control bytes that select a plain waveform: noise, triangle with gate
ResetControlInputs == {128, 17}

ResetFreqHiInputs == {128}

ResetDeltas == {8, 300}

Instances == {"sid", "twin"}

InitReset ==
  Constructor /\ ExternalFilterConstructor /\ script = [pc |-> "history", elapsed |-> 0, calls |-> 0]

\* An operation f on the state of one instance, in the history phase.
History(which, f(_)) ==
  /\ script.pc = "history"
  /\ script.calls < MaxHistoryOps
  /\ script' = [script EXCEPT !.calls = @ + 1]
  /\ IF which = "sid"
       THEN /\ \E s \in {f(SIDState)} :
                 envelope' = s.envelope /\ wave' = s.wave
            /\ twin' = twin
       ELSE /\ twin' = f(twin)
            /\ UNCHANGED <<envelope, wave>>
  /\ UNCHANGED <<bypass, extfilt>>

HistoryWriteCONTROL_REG(which, v, control) ==
  /\ LET f(s) == VoiceWriteCONTROL_REG(s, v, control)
     IN  History(which, f)
  /\ Done("writeCONTROL_REG", v, control)

HistoryWriteFREQ_HI(which, v, freq_hi) ==
  /\ LET f(s) == [s EXCEPT !.wave[v] = WaveWriteFREQ_HI(s.wave[v], freq_hi)]
     IN  History(which, f)
  /\ Done("writeFREQ_HI", v, freq_hi)

HistoryClock(which, delta_t) ==
  /\ LET f(s) == SIDClock(s, delta_t)
     IN  History(which, f)
  /\ Done("clock", 0, delta_t)

\* reset() on both instances
ResetBoth ==
  /\ script.pc = "history"
  /\ script' = [script EXCEPT !.pc = "after", !.calls = 0]
  /\ \E s \in {SIDReset(SIDState)} :
       envelope' = s.envelope /\ wave' = s.wave
  /\ twin' = SIDReset(twin)
  /\ Done("reset", 0, 0)
  /\ UNCHANGED <<bypass, extfilt>>

\* The same operation f on both instances, after the reset.
After(f(_)) ==
  /\ script.pc = "after"
  /\ script.calls < MaxAfterOps
  /\ script' = [script EXCEPT !.calls = @ + 1]
  /\ \E s \in {f(SIDState)} : envelope' = s.envelope /\ wave' = s.wave
  /\ twin' = f(twin)
  /\ UNCHANGED <<bypass, extfilt>>

AfterWriteCONTROL_REG(v, control) ==
  /\ LET f(s) == VoiceWriteCONTROL_REG(s, v, control)
     IN  After(f)
  /\ Done("writeCONTROL_REG", v, control)

AfterWriteFREQ_HI(v, freq_hi) ==
  /\ LET f(s) == [s EXCEPT !.wave[v] = WaveWriteFREQ_HI(s.wave[v], freq_hi)]
     IN  After(f)
  /\ Done("writeFREQ_HI", v, freq_hi)

AfterClock(delta_t) ==
  /\ LET f(s) == SIDClock(s, delta_t)
     IN  After(f)
  /\ Done("clock", 0, delta_t)

NextReset ==
  \/ \E which \in Instances, v \in Voices, control \in ResetControlInputs :
       HistoryWriteCONTROL_REG(which, v, control)
  \/ \E which \in Instances, v \in Voices, freq_hi \in ResetFreqHiInputs :
       HistoryWriteFREQ_HI(which, v, freq_hi)
  \/ \E which \in Instances, delta_t \in ResetDeltas :
       HistoryClock(which, delta_t)
  \/ ResetBoth
  \/ \E v \in Voices, control \in ResetControlInputs :
       AfterWriteCONTROL_REG(v, control)
  \/ \E v \in Voices, freq_hi \in ResetFreqHiInputs :
       AfterWriteFREQ_HI(v, freq_hi)
  \/ \E delta_t \in ResetDeltas : AfterClock(delta_t)

SpecReset == InitReset /\ [][NextReset]_vars

\* What reads of an instance return: readOSC and readENV of each voice.
Observations(s) ==
  [v \in Voices |-> << WaveReadOSC(s.wave, v), EnvReadENV(s.envelope[v]) >>]

\* C10: reset() restores the power-on state whatever came before: two
\* instances with different histories, once both are reset, give the same
\* observations after every same sequence of later operations.
Orig_C10_ResetIndependence ==
  script.pc = "after" => Observations(SIDState) = Observations(twin)

\* C10, the state reset() assigns: that much is the same in both instances.
ResetAssigned(s) ==
  [s EXCEPT !.wave = [v \in Voices |-> [s.wave[v] EXCEPT !.waveform = 0]]]

Aux_C10_AssignedStateEqual ==
  (script.pc = "after" /\ script.calls = 0) =>
    ResetAssigned(SIDState) = ResetAssigned(twin)


(***************************************************************************)
(* SpecOsc: one voice's oscillator under register writes, resets and       *)
(* clocks in any order.  Voice 1 (index 0) is written; its sync source,    *)
(* voice 3, is never started.                                              *)
(***************************************************************************)
MaxOscOps == 5

OscFreqHiInputs == {0, 128}

\* test + gate, and noise + ring_mod + sync + gate
OscControlInputs == {9, 135}

OscDeltas == {31, 600}

InitOsc == Constructor /\ ExternalFilterConstructor /\ script = NoScript

OscWriteFREQ_HI(freq_hi) ==
  /\ nops < MaxOscOps
  /\ wave' = [wave EXCEPT ![0] = WaveWriteFREQ_HI(wave[0], freq_hi)]
  /\ Done("writeFREQ_HI", 0, freq_hi)
  /\ UNCHANGED <<envelope, bypass, script, twin, extfilt>>

OscWriteCONTROL_REG(control) ==
  /\ nops < MaxOscOps
  /\ \E s \in {VoiceWriteCONTROL_REG(SIDState, 0, control)} :
       envelope' = s.envelope /\ wave' = s.wave
  /\ Done("writeCONTROL_REG", 0, control)
  /\ UNCHANGED <<bypass, script, twin, extfilt>>

OscEnableFilter ==
  /\ nops < MaxOscOps
  /\ ~bypass
  /\ bypass' = SIDEnableFilter(SIDState, FALSE).bypass
  /\ Done("enable_filter", 0, 0)
  /\ UNCHANGED <<envelope, wave, script, twin, extfilt>>

OscClock(delta_t) ==
  /\ nops < MaxOscOps
  /\ \E s \in {SIDClock(SIDState, delta_t)} :
       envelope' = s.envelope /\ wave' = s.wave
  /\ Done("clock", 0, delta_t)
  /\ UNCHANGED <<bypass, script, twin, extfilt>>

OscReset ==
  /\ nops < MaxOscOps
  /\ \E s \in {SIDReset(SIDState)} :
       envelope' = s.envelope /\ wave' = s.wave
  /\ Done("reset", 0, 0)
  /\ UNCHANGED <<bypass, script, twin, extfilt>>

NextOsc ==
  \/ \E freq_hi \in OscFreqHiInputs : OscWriteFREQ_HI(freq_hi)
  \/ \E control \in OscControlInputs : OscWriteCONTROL_REG(control)
  \/ OscEnableFilter
  \/ \E delta_t \in OscDeltas : OscClock(delta_t)
  \/ OscReset

SpecOsc == InitOsc /\ [][NextOsc]_vars

\* C11: after SID::reset(), whatever the state before, each voice has
\* accumulator 0, shift register 0x7FFFF8, freq 0, pw 0, test, ring_mod, sync
\* and msb_rising false, the three envelope counters 0, attack, decay, sustain
\* and release 0, gate false and envelope state RELEASE.
Thm_C11_ResetState ==
  op.name = "reset" =>
    \A v \in Voices :
      /\ wave[v].accumulator = 0
      /\ wave[v].shift_register = 8388600
      /\ wave[v].freq = 0
      /\ wave[v].pw = 0
      /\ ~wave[v].test /\ ~wave[v].ring_mod /\ ~wave[v].sync
      /\ ~wave[v].msb_rising
      /\ envelope[v].envelope_counter = 0
      /\ envelope[v].rate_counter = 0
      /\ envelope[v].exponential_counter = 0
      /\ envelope[v].attack = 0 /\ envelope[v].decay = 0
      /\ envelope[v].sustain = 0 /\ envelope[v].release = 0
      /\ ~envelope[v].gate
      /\ envelope[v].state = RELEASE

\* A reset of a chip with a running oscillator whose noise register has
\* shifted and a gated envelope that has left zero.
Wit_C11_ResetState ==
  /\ op.name = "reset"
  /\ \E v \in Voices :
       /\ op.pre.wave[v].accumulator # 0
       /\ op.pre.wave[v].freq # 0
       /\ op.pre.wave[v].shift_register # 8388600
       /\ op.pre.wave[v].sync /\ op.pre.wave[v].ring_mod
       /\ op.pre.envelope[v].gate
       /\ op.pre.envelope[v].state # RELEASE
       /\ op.pre.envelope[v].envelope_counter # 0

\* C12: in every state reached by register writes, resets and clocks a
\* waveform generator with test clear has a noise shift register other
\* than zero.
Thm_C12_ShiftNonZero ==
  \A v \in Voices : ~wave[v].test => wave[v].shift_register # 0

\* The test bit has just been cleared on a voice whose register it had zeroed.
Wit_C12_ShiftNonZero ==
  /\ op.name = "writeCONTROL_REG"
  /\ op.pre.wave[op.voice].test
  /\ op.pre.wave[op.voice].shift_register = 0
  /\ ~wave[op.voice].test

\* The state s with every test bit cleared and nothing else changed.
TestCleared(s) ==
  [s EXCEPT !.wave = [v \in Voices |-> [s.wave[v] EXCEPT !.test = FALSE]]]

\* C13: a waveform generator with test set has accumulator 0 and shift
\* register 0, clock (with its synchronize) keeps them 0, and the envelope
\* generators advance under clock as they do with the test bits clear.
Thm_C13_TestHolds ==
  /\ \A v \in Voices :
       wave[v].test => wave[v].accumulator = 0 /\ wave[v].shift_register = 0
  /\ op.name = "clock" =>
       envelope = SIDClock(TestCleared(op.pre), op.arg).envelope

\* A clock of a chip with the test bit set on a voice whose frequency is not
\* zero and whose envelope moves.
Wit_C13_TestHolds ==
  /\ op.name = "clock"
  /\ op.pre.wave[0].test
  /\ op.pre.wave[0].freq # 0
  /\ envelope[0].envelope_counter > op.pre.envelope[0].envelope_counter

\* C14: in every state reached by register writes, resets and clocks each
\* accumulator is in [0, 2^24) and each shift register in [0, 2^23).
Thm_C14_RegisterRange ==
  \A v \in Voices :
    /\ wave[v].accumulator \in 0..16777215
    /\ wave[v].shift_register \in 0..8388607

\* A clock that shifts a noise register and carries an accumulator past 2^24.
Wit_C14_RegisterRange ==
  /\ op.name = "clock"
  /\ \E v \in Voices :
       /\ ~op.pre.wave[v].test
       /\ wave[v].shift_register # op.pre.wave[v].shift_register
       /\ op.pre.wave[v].accumulator + (op.arg * op.pre.wave[v].freq)
            > 16777215

\* The oscillators of s are all stopped: every frequency 0, every test clear.
AllStopped(s) == \A v \in Voices : s.wave[v].freq = 0 /\ ~s.wave[v].test

\* C15: with every voice's frequency 0 and test clear, clock(delta_t) leaves
\* the three accumulators unchanged, whatever the sync and ring_mod bits and
\* the earlier history.
Thm_C15_StoppedOscillators ==
  (op.name = "clock" /\ AllStopped(op.pre)) =>
    \A v \in Voices : wave[v].accumulator = op.pre.wave[v].accumulator

\* A clock of stopped oscillators, one of which ran before and has sync and
\* ring_mod set.
Wit_C15_StoppedOscillators ==
  /\ op.name = "clock"
  /\ AllStopped(op.pre)
  /\ \E v \in Voices :
       /\ op.pre.wave[v].accumulator # 0
       /\ op.pre.wave[v].sync /\ op.pre.wave[v].ring_mod

\* C32: TEST bit handling in a CONTROL write: a write with the test bit set
\* makes accumulator = 0 and shift register = 0; a write that clears test
\* after it was set makes shift register = 0x7FFFF8 and leaves the
\* accumulator unchanged; a write that keeps test at 0 changes neither
\* accumulator nor shift register.
Thm_C32_TestBitWrite ==
  op.name = "writeCONTROL_REG" =>
    LET before == op.pre.wave[op.voice]
        after == wave[op.voice]
    IN  /\ after.test = (Bit(op.arg, 3) = 1)
        /\ Bit(op.arg, 3) = 1 =>
             after.accumulator = 0 /\ after.shift_register = 0
        /\ (Bit(op.arg, 3) = 0 /\ before.test) =>
             /\ after.shift_register = 8388600
             /\ after.accumulator = before.accumulator
        /\ (Bit(op.arg, 3) = 0 /\ ~before.test) =>
             /\ after.shift_register = before.shift_register
             /\ after.accumulator = before.accumulator

\* A write has cleared the test bit of a voice with a frequency, whose
\* noise register the test bit had zeroed.
Wit_C32_TestBitWrite ==
  /\ op.name = "writeCONTROL_REG" /\ Bit(op.arg, 3) = 0
  /\ op.pre.wave[0].test /\ op.pre.wave[0].shift_register = 0
  /\ op.pre.wave[0].freq # 0
  /\ wave[0].shift_register = 8388600 /\ ~wave[0].test


(***************************************************************************)
(* SpecS1: a free-running oscillator.  After reset voice 1 (index 0) gets  *)
(* its frequency and the sawtooth waveform, with or without the sync bit   *)
(* (its sync source, voice 3, stays stopped), and the chip is clocked in   *)
(* calls of several lengths.                                               *)
(***************************************************************************)
MaxS1Calls == 3

MaxS1Cycles == 16384

S1FreqHi == {16, 19}

\* sawtooth, and sawtooth + sync
S1Controls == {32, 34}

S1Pieces == {1, 8, 4096, 16384}

InitS1 ==
  Constructor /\ ExternalFilterConstructor /\ script = [pc |-> "reset", elapsed |-> 0, calls |-> 0]

S1Reset ==
  /\ SyncStep("reset", "freq")
  /\ \E s \in {SIDReset(SIDState)} :
       envelope' = s.envelope /\ wave' = s.wave
  /\ Done("reset", 0, 0)
  /\ UNCHANGED <<bypass, twin, extfilt>>

S1WriteFREQ_HI(freq_hi) ==
  /\ SyncStep("freq", "control")
  /\ wave' = [wave EXCEPT ![0] = WaveWriteFREQ_HI(wave[0], freq_hi)]
  /\ Done("writeFREQ_HI", 0, freq_hi)
  /\ UNCHANGED <<envelope, bypass, twin, extfilt>>

S1WriteCONTROL_REG(control) ==
  /\ SyncStep("control", "filter")
  /\ \E s \in {VoiceWriteCONTROL_REG(SIDState, 0, control)} :
       envelope' = s.envelope /\ wave' = s.wave
  /\ Done("writeCONTROL_REG", 0, control)
  /\ UNCHANGED <<bypass, twin, extfilt>>

S1EnableFilter(enable) ==
  /\ SyncStep("filter", "run")
  /\ bypass' = SIDEnableFilter(SIDState, enable).bypass
  /\ Done("enable_filter", 0, IF enable THEN 1 ELSE 0)
  /\ UNCHANGED <<envelope, wave, twin, extfilt>>

S1Clock(delta_t) ==
  /\ script.pc = "run"
  /\ script.calls < MaxS1Calls
  /\ script.elapsed + delta_t <= MaxS1Cycles
  /\ script' = [script EXCEPT !.elapsed = @ + delta_t, !.calls = @ + 1]
  /\ \E s \in {SIDClock(SIDState, delta_t)} :
       envelope' = s.envelope /\ wave' = s.wave
  /\ Done("clock", 0, delta_t)
  /\ UNCHANGED <<bypass, twin, extfilt>>

NextS1 ==
  \/ S1Reset
  \/ \E freq_hi \in S1FreqHi : S1WriteFREQ_HI(freq_hi)
  \/ \E control \in S1Controls : S1WriteCONTROL_REG(control)
  \/ \E enable \in BOOLEAN : S1EnableFilter(enable)
  \/ \E delta_t \in S1Pieces : S1Clock(delta_t)

SpecS1 == InitS1 /\ [][NextS1]_vars

\* C16: with test clear and no hard-sync reset in the interval, clocking
\* delta_t cycles sets the accumulator to (acc + delta_t * freq) mod 2^24;
\* after reset, voice-1 freq 0x1000 and sawtooth, 16384 cycles leave the
\* accumulator 0 and readOSC() = 0.
Thm_C16_AccumulatorAdvance ==
  /\ (op.name = "clock" /\ ~op.pre.wave[0].test) =>
       wave[0].accumulator =
         (op.pre.wave[0].accumulator + (op.arg * op.pre.wave[0].freq))
           % 16777216
  /\ (script.pc = "run" /\ wave[0].freq = 4096 /\ script.elapsed = 16384) =>
       wave[0].accumulator = 0 /\ WaveReadOSC(wave, 0) = 0

\* One clock(16384) at freq 0x1000 from the reset accumulator.
Wit_C16_AccumulatorAdvance ==
  /\ op.name = "clock" /\ op.arg = 16384
  /\ op.pre.wave[0].freq = 4096 /\ op.pre.wave[0].accumulator = 0
  /\ wave[0].waveform = 2
  /\ wave[0].accumulator = 0


(***************************************************************************)
(* SpecRing: ring modulation with a stopped source.  Voice 3 (index 2),    *)
(* the sync source of voice 1 (index 0), is run for a while or not at all  *)
(* and then stopped by writing frequency 0; voice 1 gets a frequency and   *)
(* triangle + ring_mod, and the chip is clocked.                           *)
(***************************************************************************)
MaxRingCalls == 3

MaxRingCycles == 2100

RingSourceFreqHi == {0, 128}

RingSourceDeltas == {255, 300}

RingFreqHi == {16, 64}

\* triangle + ring_mod, and triangle + ring_mod + sync
RingControls == {20, 22}

RingPieces == {1, 8, 600, 2000}

InitRing ==
  Constructor /\ ExternalFilterConstructor /\ script = [pc |-> "reset", elapsed |-> 0, calls |-> 0]

RingReset ==
  /\ SyncStep("reset", "freq_src")
  /\ \E s \in {SIDReset(SIDState)} :
       envelope' = s.envelope /\ wave' = s.wave
  /\ Done("reset", 0, 0)
  /\ UNCHANGED <<bypass, twin, extfilt>>

RingWriteSourceFREQ_HI(freq_hi) ==
  /\ SyncStep("freq_src", "run_src")
  /\ wave' = [wave EXCEPT ![2] = WaveWriteFREQ_HI(wave[2], freq_hi)]
  /\ Done("writeFREQ_HI", 2, freq_hi)
  /\ UNCHANGED <<envelope, bypass, twin, extfilt>>

RingClockSource(delta_t) ==
  /\ SyncStep("run_src", "stop_src")
  /\ \E s \in {SIDClock(SIDState, delta_t)} :
       envelope' = s.envelope /\ wave' = s.wave
  /\ Done("clock", 0, delta_t)
  /\ UNCHANGED <<bypass, twin, extfilt>>

RingStopSource ==
  /\ SyncStep("stop_src", "freq")
  /\ wave' = [wave EXCEPT ![2] = WaveWriteFREQ_HI(wave[2], 0)]
  /\ Done("writeFREQ_HI", 2, 0)
  /\ UNCHANGED <<envelope, bypass, twin, extfilt>>

RingWriteFREQ_HI(freq_hi) ==
  /\ SyncStep("freq", "control")
  /\ wave' = [wave EXCEPT ![0] = WaveWriteFREQ_HI(wave[0], freq_hi)]
  /\ Done("writeFREQ_HI", 0, freq_hi)
  /\ UNCHANGED <<envelope, bypass, twin, extfilt>>

RingWriteCONTROL_REG(control) ==
  /\ SyncStep("control", "filter")
  /\ \E s \in {VoiceWriteCONTROL_REG(SIDState, 0, control)} :
       envelope' = s.envelope /\ wave' = s.wave
  /\ Done("writeCONTROL_REG", 0, control)
  /\ UNCHANGED <<bypass, twin, extfilt>>

RingEnableFilter(enable) ==
  /\ SyncStep("filter", "run")
  /\ bypass' = SIDEnableFilter(SIDState, enable).bypass
  /\ Done("enable_filter", 0, IF enable THEN 1 ELSE 0)
  /\ UNCHANGED <<envelope, wave, twin, extfilt>>

RingClock(delta_t) ==
  /\ script.pc = "run"
  /\ script.calls < MaxRingCalls
  /\ script.elapsed + delta_t <= MaxRingCycles
  /\ script' = [script EXCEPT !.elapsed = @ + delta_t, !.calls = @ + 1]
  /\ \E s \in {SIDClock(SIDState, delta_t)} :
       envelope' = s.envelope /\ wave' = s.wave
  /\ Done("clock", 0, delta_t)
  /\ UNCHANGED <<bypass, twin, extfilt>>

NextRing ==
  \/ RingReset
  \/ \E freq_hi \in RingSourceFreqHi : RingWriteSourceFREQ_HI(freq_hi)
  \/ \E delta_t \in RingSourceDeltas : RingClockSource(delta_t)
  \/ RingStopSource
  \/ \E freq_hi \in RingFreqHi : RingWriteFREQ_HI(freq_hi)
  \/ \E control \in RingControls : RingWriteCONTROL_REG(control)
  \/ \E enable \in BOOLEAN : RingEnableFilter(enable)
  \/ \E delta_t \in RingPieces : RingClock(delta_t)

SpecRing == InitRing /\ [][NextRing]_vars

\* The triangle of an accumulator without ring modulation:
\* ((acc[23] ? ~acc : acc) >> 11) & 0xFFF.
PlainTriangle(accumulator) ==
  LET folded == IF accumulator >= 8388608
                  THEN 16777215 - accumulator ELSE accumulator
  IN  (folded \div 2048) % 4096

\* Voice 1 has triangle and ring_mod selected, its source is stopped, and the
\* chip has just been clocked.
RingClocked ==
  /\ script.pc = "run" /\ op.name = "clock"
  /\ wave[0].waveform = 1 /\ wave[0].ring_mod
  /\ wave[2].freq = 0

\* C17 as stated: with triangle and ring_mod on voice 1 and its sync source
\* voice 3 at frequency 0, after clocking any interval the output of voice 1
\* is the unmodulated triangle of its accumulator.
Orig_C17_RingStopped ==
  RingClocked => WaveOutput(wave, 0) = PlainTriangle(wave[0].accumulator)

\* C17, amended: the output is the unmodulated triangle when bit 23 of the
\* stopped source's accumulator is 0 (as after reset), and its complement
\* 0xFFF - triangle when the source was stopped with bit 23 set.
Thm_C17_RingStopped ==
  RingClocked =>
    /\ wave[2].accumulator = op.pre.wave[2].accumulator
    /\ wave[2].accumulator < 8388608 =>
         WaveOutput(wave, 0) = PlainTriangle(wave[0].accumulator)
    /\ wave[2].accumulator >= 8388608 =>
         WaveOutput(wave, 0) = 4095 - PlainTriangle(wave[0].accumulator)

\* Voice 1 has run past its own MSB rise next to a source stopped at 0x960000.
Wit_C17_RingStopped ==
  /\ RingClocked
  /\ wave[2].accumulator = 9830400
  /\ wave[0].accumulator >= 8388608
  /\ WaveOutput(wave, 0) # 0


(***************************************************************************)
(* SpecExt: an ExternalFilter object clocked with 16-bit inputs.           *)
(***************************************************************************)
MaxExtOps == 3

ExtInputs == {-32768, 0, 16384, 32767}

ExtDeltas == {0, 1, 7, 25, 2000}

InitExt == Constructor /\ ExternalFilterConstructor /\ script = NoScript

\* The history of a filter operation: op.pre is the filter state it was
\* applied to, op.voice the cycle count of a clock and op.arg its input.
ExtDone(name, delta_t, vi) ==
  /\ op' = [name |-> name, voice |-> delta_t, arg |-> vi, pre |-> extfilt]
  /\ nops' = nops + 1

ExternalFilterEnableFilter(enable) ==
  /\ nops < MaxExtOps
  /\ extfilt' = ExtEnableFilter(extfilt, enable)
  /\ ExtDone("enable_filter", 0, IF enable THEN 1 ELSE 0)
  /\ UNCHANGED <<envelope, wave, bypass, script, twin>>

ExternalFilterClockOne(vi) ==
  /\ nops < MaxExtOps
  /\ extfilt' = ExtClockOne(extfilt, vi)
  /\ ExtDone("clock(vi)", 1, vi)
  /\ UNCHANGED <<envelope, wave, bypass, script, twin>>

ExternalFilterClock(delta_t, vi) ==
  /\ nops < MaxExtOps
  /\ extfilt' = ExtClock(extfilt, delta_t, vi)
  /\ ExtDone("clock(delta_t, vi)", delta_t, vi)
  /\ UNCHANGED <<envelope, wave, bypass, script, twin>>

NextExt ==
  \/ \E enable \in BOOLEAN : ExternalFilterEnableFilter(enable)
  \/ \E vi \in ExtInputs : ExternalFilterClockOne(vi)
  \/ \E delta_t \in ExtDeltas, vi \in ExtInputs : ExternalFilterClock(delta_t, vi)

SpecExt == InitExt /\ [][NextExt]_vars

\* x limited to the signed 16-bit range.
Clamp16(x) == IF x > 32767 THEN 32767 ELSE IF x < -32768 THEN -32768 ELSE x

\* C20: for every pair of filter states reached by clocking 16-bit inputs,
\* ExternalFilter::output() returns (vlp - vhp) >> 11 limited to
\* [-32768, 32767]; the value never wraps around.
Orig_C20_OutputClamped ==
  ExtOutput(extfilt) = Clamp16(ShiftRight(extfilt.vlp - extfilt.vhp, 11))

ExtClockNames == {"clock(vi)", "clock(delta_t, vi)"}

\* C22: when the external filter is disabled, after clock(vi) or
\* clock(delta_t, vi) with any delta_t, output() is vi for every 16-bit vi,
\* whatever the filter states were before.
Thm_C22_DisabledPassThrough ==
  (op.name \in ExtClockNames /\ ~op.pre.enabled) =>
    /\ ExtOutput(extfilt) = op.arg
    /\ extfilt = [enabled |-> FALSE, vlp |-> op.arg * 2048, vhp |-> 0]

\* A disabled filter that still held both states from an enabled run is
\* clocked for 0 cycles with the lowest input.
Wit_C22_DisabledPassThrough ==
  /\ op.name = "clock(delta_t, vi)" /\ op.voice = 0 /\ op.arg = -32768
  /\ ~op.pre.enabled
  /\ op.pre.vhp > 0 /\ op.pre.vlp > 0


(***************************************************************************)
(* SpecWave: the waveform outputs.  Voice 3 (index 2), the sync source of  *)
(* voice 1 (index 0), runs at a frequency of its own; voice 1 gets a       *)
(* frequency, a pulse width and each waveform selector that needs no       *)
(* sample table, with and without ring_mod, and the chip is clocked.       *)
(***************************************************************************)
MaxWaveCalls == 3

MaxWaveCycles == 2100

WaveFreqHi == {16, 200}

\* Selectors 0, 1, 2, 4 and 8..15.
WaveSelectors == {0, 1, 2, 4} \cup (8 .. 15)

\* The selector in bits 7..4, ring_mod (bit 2) set or clear.
WaveControls == { (16 * sel) + ring : sel \in WaveSelectors, ring \in {0, 4} }

WavePieces == {8, 300, 700}

InitWave ==
  /\ Constructor /\ ExternalFilterConstructor
  /\ script = [pc |-> "freq_src", elapsed |-> 0, calls |-> 0]

WaveStepSourceFREQ_HI ==
  /\ SyncStep("freq_src", "freq")
  /\ wave' = [wave EXCEPT ![2] = WaveWriteFREQ_HI(wave[2], 128)]
  /\ Done("writeFREQ_HI", 2, 128)
  /\ UNCHANGED <<envelope, bypass, twin, extfilt>>

WaveStepFREQ_HI(freq_hi) ==
  /\ SyncStep("freq", "pw")
  /\ wave' = [wave EXCEPT ![0] = WaveWriteFREQ_HI(wave[0], freq_hi)]
  /\ Done("writeFREQ_HI", 0, freq_hi)
  /\ UNCHANGED <<envelope, bypass, twin, extfilt>>

WaveStepPW_HI ==
  /\ SyncStep("pw", "control")
  /\ wave' = [wave EXCEPT ![0] = WaveWritePW_HI(wave[0], 8)]
  /\ Done("writePW_HI", 0, 8)
  /\ UNCHANGED <<envelope, bypass, twin, extfilt>>

WaveStepCONTROL_REG(control) ==
  /\ SyncStep("control", "run")
  /\ \E s \in {VoiceWriteCONTROL_REG(SIDState, 0, control)} :
       envelope' = s.envelope /\ wave' = s.wave
  /\ Done("writeCONTROL_REG", 0, control)
  /\ UNCHANGED <<bypass, twin, extfilt>>

WaveStepClock(delta_t) ==
  /\ script.pc = "run"
  /\ script.calls < MaxWaveCalls
  /\ script.elapsed + delta_t <= MaxWaveCycles
  /\ script' = [script EXCEPT !.elapsed = @ + delta_t, !.calls = @ + 1]
  /\ \E s \in {SIDClock(SIDState, delta_t)} :
       envelope' = s.envelope /\ wave' = s.wave
  /\ Done("clock", 0, delta_t)
  /\ UNCHANGED <<bypass, twin, extfilt>>

NextWave ==
  \/ WaveStepSourceFREQ_HI
  \/ \E freq_hi \in WaveFreqHi : WaveStepFREQ_HI(freq_hi)
  \/ WaveStepPW_HI
  \/ \E control \in WaveControls : WaveStepCONTROL_REG(control)
  \/ \E delta_t \in WavePieces : WaveStepClock(delta_t)

SpecWave == InitWave /\ [][NextWave]_vars

\* The number whose bit i, for i in 0..11, is bit(i).
FromBits12(bit(_)) ==
  bit(0) + (2 * bit(1)) + (4 * bit(2)) + (8 * bit(3)) + (16 * bit(4))
    + (32 * bit(5)) + (64 * bit(6)) + (128 * bit(7)) + (256 * bit(8))
    + (512 * bit(9)) + (1024 * bit(10)) + (2048 * bit(11))

\* The noise register bit that feeds output bit i.
NoiseTap(i) ==
  IF i = 11 THEN 22 ELSE IF i = 10 THEN 20 ELSE IF i = 9 THEN 16
  ELSE IF i = 8 THEN 13 ELSE IF i = 7 THEN 11 ELSE IF i = 6 THEN 7
  ELSE IF i = 5 THEN 4 ELSE 2

\* The reference function of the claim, bit by bit, for the selectors
\* 0, 1, 2, 4 and 8..15.
RefOutput(selector, acc, shift, pw, ring, source_acc) ==
  LET m == (Bit(acc, 23) + (IF ring THEN Bit(source_acc, 23) ELSE 0)) % 2
      tri(i) == (Bit(acc, i + 11) + m) % 2
      saw(i) == Bit(acc, i + 12)
      noise(i) == IF i < 4 THEN 0 ELSE Bit(shift, NoiseTap(i))
  IN  IF selector = 1 THEN FromBits12(tri)
      ELSE IF selector = 2 THEN FromBits12(saw)
      ELSE IF selector = 4
        THEN (IF FromBits12(saw) >= pw THEN 4095 ELSE 0)
      ELSE IF selector = 8 THEN FromBits12(noise)
      ELSE 0

\* C19: in every reachable state WaveformGenerator::output() is in
\* [0, 0xFFF] and equals the reference function: 0 for selector 0 and for
\* the selectors 9..15 that combine noise with another waveform, acc >> 12
\* for sawtooth, 0xFFF if (acc >> 12) >= pw else 0 for pulse,
\* ((m ? ~acc : acc) >> 11) & 0xFFF for triangle with m = acc[23] XOR
\* (ring_mod AND source.acc[23]), for noise the register bits 22, 20, 16, 13,
\* 11, 7, 4, 2 in output bits 11..4 over four zero bits; and readOSC() is
\* output() >> 4.
Thm_C19_OutputReference ==
  \A v \in Voices :
    LET w == wave[v]
        ref == RefOutput(w.waveform, w.accumulator, w.shift_register, w.pw,
                         w.ring_mod, wave[sync_source(v)].accumulator)
    IN  w.waveform \in WaveSelectors =>
          /\ WaveOutput(wave, v) \in 0 .. 4095
          /\ WaveOutput(wave, v) = ref
          /\ WaveReadOSC(wave, v) = FromBits12(LAMBDA i :
                                       IF i < 8 THEN Bit(ref, i + 4) ELSE 0)

\* Voice 1 plays a ring-modulated triangle that the source's MSB inverts.
Wit_C19_OutputReference ==
  /\ script.pc = "run" /\ op.name = "clock"
  /\ wave[0].waveform = 1 /\ wave[0].ring_mod
  /\ wave[2].accumulator >= 8388608
  /\ wave[0].accumulator \in 2048 .. 8388607
  /\ WaveOutput(wave, 0) > 2047


(***************************************************************************)
(* SpecRead: the operations of SpecOsc and, between them, the read         *)
(* functions of voice 1 (index 0).  A call is modelled by the state it     *)
(* leaves and the value it returns.                                        *)
(***************************************************************************)
MaxReadOps == 4

\* WaveformGenerator::output(): calls the selected output function, which
\* assigns no member.
WaveOutputCall(s, v) == [state |-> s, result |-> WaveOutput(s.wave, v)]

\* Variant: the read clocks the oscillator by one cycle.
WaveReadOSCCallClocks(s, v) ==
  [state |-> [s EXCEPT !.wave[v] = WaveClock(s.wave[v], 1)],
   result |-> WaveReadOSC(s.wave, v)]

\* WaveformGenerator::readOSC()
WaveReadOSCCall(s, v) == [state |-> s, result |-> WaveReadOSC(s.wave, v)]

\* EnvelopeGenerator::output()
EnvOutputCall(s, v) == [state |-> s, result |-> EnvOutput(s.envelope[v])]

\* EnvelopeGenerator::readENV()
EnvReadENVCall(s, v) == [state |-> s, result |-> EnvReadENV(s.envelope[v])]

ReadNames == {"output", "readOSC", "envelope.output", "readENV"}

\* The call named name on voice v in state s.
ReadCall(name, s, v) ==
  IF name = "output" THEN WaveOutputCall(s, v)
  ELSE IF name = "readOSC" THEN WaveReadOSCCall(s, v)
  ELSE IF name = "envelope.output" THEN EnvOutputCall(s, v)
  ELSE EnvReadENVCall(s, v)

Read(name) ==
  /\ nops < MaxReadOps
  /\ \E c \in {ReadCall(name, SIDState, 0)} :
       /\ envelope' = c.state.envelope
       /\ wave' = c.state.wave
       /\ bypass' = c.state.bypass
       /\ Done(name, 0, c.result)
  /\ UNCHANGED <<script, twin, extfilt>>

NextRead ==
  \/ NextOsc
  \/ \E name \in ReadNames : Read(name)

SpecRead == InitOsc /\ [][NextRead]_vars

MaxDCRuns == 3

MaxDCCycles == 1000000

DCInputs == {16384, 1000}

DCRuns == {1, 2, 7, 1000, 5000, 1000000}

InitDC ==
  /\ Constructor /\ ExternalFilterConstructor
  /\ script = [pc |-> "input", elapsed |-> 0, calls |-> 0]

\* The host picks the constant input; op.arg keeps it.
DCChooseInput(vi) ==
  /\ SyncStep("input", "run")
  /\ Done("input", 0, vi)
  /\ UNCHANGED <<envelope, wave, bypass, twin, extfilt>>

\* for (i = 0; i < n; i++) clock(1, vi): L = [x, i], at most 4^k passes.
RECURSIVE DCRepeatLoop(_, _, _, _)
DCRepeatLoop(L, n, vi, k) ==
  IF ~(L.i < n) THEN L
  ELSE IF k = 0 THEN [x |-> ExtClock(L.x, 1, vi), i |-> L.i + 1]
  ELSE LET Q(M) == DCRepeatLoop(M, n, vi, k - 1)
       IN  Q(Q(Q(Q(L))))

DCRepeat(x, n, vi) == DCRepeatLoop([x |-> x, i |-> 0], n, vi, Levels(n)).x

DCClock(n) ==
  /\ script.pc = "run"
  /\ script.calls < MaxDCRuns
  /\ script.elapsed + n <= MaxDCCycles
  /\ script' = [script EXCEPT !.elapsed = @ + n, !.calls = @ + 1]
  /\ extfilt' = DCRepeat(extfilt, n, op.arg)
  /\ op' = op /\ nops' = nops + 1
  /\ UNCHANGED <<envelope, wave, bypass, twin>>

NextDC ==
  \/ \E vi \in DCInputs : DCChooseInput(vi)
  \/ \E n \in DCRuns : DCClock(n)

SpecDC == InitDC /\ [][NextDC]_vars

\* C21 as stated: with the filter enabled and both states starting at 0,
\* clock(1, 0x4000) called for 10^6 cycles leaves output() within 0 +/- 1.
Orig_C21_DCRemoval ==
  (script.pc = "run" /\ op.arg = 16384 /\ script.elapsed = 1000000) =>
    ExtOutput(extfilt) \in -1 .. 1

\* C21, amended: after 10^6 single-cycle clocks of a constant input the
\* output is 4: the high-pass state stops moving once 13 * (vlp - vhp) is
\* below 2^17, which leaves vlp - vhp = 10082, and 10082 >> 11 = 4.
Thm_C21_DCRemoval ==
  (script.pc = "run" /\ script.elapsed = 1000000) =>
    /\ ExtOutput(extfilt) = 4
    /\ extfilt.vlp - extfilt.vhp = 10082
    /\ ExtClock(extfilt, 1, op.arg) = extfilt

\* 10^6 cycles of input 0x4000 have been clocked.
Wit_C21_DCRemoval ==
  /\ script.pc = "run" /\ op.arg = 16384 /\ script.elapsed = 1000000
  /\ extfilt.vlp = 33554422


(***************************************************************************)
(* SpecOut: the sample read functions.  The mixer hands SID::output the    *)
(* internal output (v1 + v2 + v3) * vol of three voice samples             *)
(* (wave - 0x800) * envelope; output() and output(bits) scale it.          *)
(***************************************************************************)
\* a / b of C ints with b > 0: the quotient is truncated towards zero.
CDiv(a, b) == IF a >= 0 THEN a \div b ELSE -((-a) \div b)

\* Voice::output: (wave.output() - 0x800) * envelope.output()
VoiceOutput(wave_output, envelope_output) ==
  (wave_output - 2048) * envelope_output

\* Filter::output with all voices on the unfiltered path: (Vnf) * vol
MixerOutput(v1, v2, v3, vol) == (v1 + v2 + v3) * vol

\* SID::output()
SIDOutput(filter_output) ==
  CDiv(-filter_output, CDiv(4095 * 255 * 3 * 15 * 2, 65536))

\* SID::output(int bits); 2 << bits is 2^(bits + 1)
SIDOutputBits(filter_output, bits) ==
  CDiv(-filter_output, CDiv(4095 * 255 * 3 * 15 * 2, 2 * Pow2(bits)))

OutWaveOutputs == {0, 2048, 4095}

OutEnvelopeOutputs == {0, 128, 255}

OutVolumes == {0, 9, 15}

OutBits == 1 .. 16

InitOut ==
  /\ Constructor /\ ExternalFilterConstructor
  /\ script = [pc |-> "mix", elapsed |-> 0, calls |-> 0]

\* The mixer produces an internal output; op.arg holds it.
OutMix(w, e, vol) ==
  /\ SyncStep("mix", "read")
  /\ Done("mix", 0,
          MixerOutput(VoiceOutput(w[0], e[0]), VoiceOutput(w[1], e[1]),
                      VoiceOutput(w[2], e[2]), vol))
  /\ UNCHANGED <<envelope, wave, bypass, twin, extfilt>>

\* output(): op.pre is the internal output, op.arg the sample returned.
OutOutput ==
  /\ script.pc = "read" /\ op.name = "mix"
  /\ op' = [name |-> "output()", voice |-> 16, arg |-> SIDOutput(op.arg),
            pre |-> op.arg]
  /\ nops' = nops + 1
  /\ UNCHANGED <<envelope, wave, bypass, script, twin, extfilt>>

\* output(bits): op.voice is bits.
OutOutputBits(bits) ==
  /\ script.pc = "read" /\ op.name = "mix"
  /\ op' = [name |-> "output(bits)", voice |-> bits,
            arg |-> SIDOutputBits(op.arg, bits), pre |-> op.arg]
  /\ nops' = nops + 1
  /\ UNCHANGED <<envelope, wave, bypass, script, twin, extfilt>>

NextOut ==
  \/ \E w \in [Voices -> OutWaveOutputs], e \in [Voices -> OutEnvelopeOutputs],
        vol \in OutVolumes : OutMix(w, e, vol)
  \/ OutOutput
  \/ \E bits \in OutBits : OutOutputBits(bits)

SpecOut == InitOut /\ [][NextOut]_vars

\* C23: for every bits in 1..16 and every internal output the mixer can
\* produce (three voices each in (-2048..2047) * (0..255), volume 0..15),
\* output(bits) lies in [-2^(bits-1), 2^(bits-1) - 1], and output() lies in
\* [-32768, 32767].
Orig_C23_OutputRange ==
  /\ op.name = "output(bits)" =>
       op.arg \in -Pow2(op.voice - 1) .. (Pow2(op.voice - 1) - 1)
  /\ op.name = "output()" => op.arg \in -32768 .. 32767

\* C37: the 16-bit output and the n-bit output agree at n = 16:
\* output() = output(16) for every internal filter output value.
Orig_C37_OutputsAgree ==
  /\ op.name = "output()" => op.arg = SIDOutputBits(op.pre, 16)
  /\ (op.name = "output(bits)" /\ op.voice = 16) =>
       op.arg = SIDOutput(op.pre)


(***************************************************************************)
(* SpecZero: SID::clock(0) among register writes, clocks and resets, and   *)
(* the sample read directly after a reset.                                 *)
(***************************************************************************)
\* Filter::reset: all filter states, the mode and the volume are zero.
FilterReset ==
  [Vhp |-> 0, Vbp |-> 0, Vlp |-> 0, Vnf |-> 0, hp_bp_lp |-> 0, vol |-> 0]

\* Filter::output: (Vf + Vnf) * vol, Vf the sum of the taps the mode selects
\* (LP = 1, BP = 2, HP = 4).
FilterOutput(f) ==
  ( (IF Bit(f.hp_bp_lp, 0) = 1 THEN f.Vlp ELSE 0)
  + (IF Bit(f.hp_bp_lp, 1) = 1 THEN f.Vbp ELSE 0)
  + (IF Bit(f.hp_bp_lp, 2) = 1 THEN f.Vhp ELSE 0)
  + f.Vnf ) * f.vol

MaxZeroOps == 6

ZeroFreqHiInputs == {0, 128}

\* triangle + gate, and test
ZeroControlInputs == {17, 8}

ZeroDeltas == {0, 11}

InitZero == Constructor /\ ExternalFilterConstructor /\ script = NoScript

ZeroWriteFREQ_HI(freq_hi) ==
  /\ nops < MaxZeroOps
  /\ wave' = [wave EXCEPT ![0] = WaveWriteFREQ_HI(wave[0], freq_hi)]
  /\ Done("writeFREQ_HI", 0, freq_hi)
  /\ UNCHANGED <<envelope, bypass, script, twin, extfilt>>

ZeroWriteCONTROL_REG(control) ==
  /\ nops < MaxZeroOps
  /\ \E s \in {VoiceWriteCONTROL_REG(SIDState, 0, control)} :
       envelope' = s.envelope /\ wave' = s.wave
  /\ Done("writeCONTROL_REG", 0, control)
  /\ UNCHANGED <<bypass, script, twin, extfilt>>

ZeroEnableFilter ==
  /\ nops < MaxZeroOps
  /\ ~bypass
  /\ bypass' = SIDEnableFilter(SIDState, FALSE).bypass
  /\ Done("enable_filter", 0, 0)
  /\ UNCHANGED <<envelope, wave, script, twin, extfilt>>

ZeroClock(delta_t) ==
  /\ nops < MaxZeroOps
  /\ \E s \in {SIDClock(SIDState, delta_t)} :
       envelope' = s.envelope /\ wave' = s.wave
  /\ Done("clock", 0, delta_t)
  /\ UNCHANGED <<bypass, script, twin, extfilt>>

ZeroReset ==
  /\ nops < MaxZeroOps
  /\ \E s \in {SIDReset(SIDState)} :
       envelope' = s.envelope /\ wave' = s.wave
  /\ Done("reset", 0, 0)
  /\ UNCHANGED <<bypass, script, twin, extfilt>>

\* output() directly after reset(); script.calls counts these reads.
ZeroOutput ==
  /\ nops < MaxZeroOps
  /\ op.name = "reset"
  /\ Done("output()", 0, SIDOutput(FilterOutput(FilterReset)))
  /\ script' = [script EXCEPT !.calls = @ + 1]
  /\ UNCHANGED <<envelope, wave, bypass, twin, extfilt>>

NextZero ==
  \/ \E freq_hi \in ZeroFreqHiInputs : ZeroWriteFREQ_HI(freq_hi)
  \/ \E control \in ZeroControlInputs : ZeroWriteCONTROL_REG(control)
  \/ ZeroEnableFilter
  \/ \E delta_t \in ZeroDeltas : ZeroClock(delta_t)
  \/ ZeroReset
  \/ ZeroOutput

SpecZero == InitZero /\ [][NextZero]_vars

\* C24: SID::clock(0) changes no state in any reachable state (no envelope,
\* oscillator or filter is clocked), and directly after reset output() = 0.
Thm_C24_ClockZero ==
  /\ (op.name = "clock" /\ op.arg = 0) =>
       /\ SIDState = op.pre
       /\ SIDClockFilterClocks(op.pre, 0) = 0
  /\ op.name = "output()" => op.arg = 0 /\ SIDState = op.pre

\* clock(0) on a running oscillator and a running envelope, in a behaviour
\* that has read output() after a reset.
Wit_C24_ClockZero ==
  /\ op.name = "clock" /\ op.arg = 0
  /\ script.calls > 0
  /\ op.pre.wave[0].freq # 0 /\ op.pre.wave[0].accumulator # 0
  /\ op.pre.envelope[0].gate /\ op.pre.envelope[0].rate_counter # 0
  /\ SIDClockFilterClocks(op.pre, 11) = 2


(***************************************************************************)
(* SpecTerm: SID::clock taken one loop pass at a time.  A few register     *)
(* writes and clock calls set the oscillators up; then one clock(delta_t)  *)
(* call runs pass by pass.  script holds the call's local variables:       *)
(* delta_t, delta_t_flt, delta_t_osc, the delta_t_min of the last          *)
(* oscillator pass, the number of oscillator passes (calls), the smallest  *)
(* delta_t_min of the call (least) and the cycles handed to filter.clock   *)
(* so far (filtered).                                                      *)
(***************************************************************************)
MaxTermSetup == 4

MaxTermCycles == 20

TermFreqs == {127, 65535}

TermSetupDeltas == {122, 128}

TermDeltas == {0, 1, 8, MaxTermCycles}

\* Accumulators and frequencies around the MSB toggles, for the distance
\* computation taken by itself.
TermAccumulators == {0, 1, 8388607, 8388608, 8388609, 16777215}

TermAllFreqs == {1, 2, 3, 255, 32768, 65535}

TermIdle ==
  [pc |-> "setup", elapsed |-> 0, calls |-> 0, delta_t |-> 0,
   delta_t_flt |-> 0, delta_t_osc |-> 0, delta_t_min |-> 0, least |-> 0,
   filtered |-> 0]

InitTerm == Constructor /\ ExternalFilterConstructor /\ script = TermIdle

\* The host writes the 16-bit frequency of voice 1: FREQ_LO, then FREQ_HI.
TermWriteFREQ(freq) ==
  /\ script.pc = "setup" /\ nops < MaxTermSetup
  /\ wave' = [wave EXCEPT ![0] =
                WaveWriteFREQ_HI(WaveWriteFREQ_LO(wave[0], freq % 256),
                                 freq \div 256)]
  /\ Done("writeFREQ", 0, freq)
  /\ UNCHANGED <<envelope, bypass, script, twin, extfilt>>

\* Voice 2, the sync destination of voice 1, gets its sync bit.
TermWriteCONTROL_REG ==
  /\ script.pc = "setup" /\ nops < MaxTermSetup
  /\ ~wave[1].sync
  /\ \E s \in {VoiceWriteCONTROL_REG(SIDState, 1, 2)} :
       envelope' = s.envelope /\ wave' = s.wave
  /\ Done("writeCONTROL_REG", 1, 2)
  /\ UNCHANGED <<bypass, script, twin, extfilt>>

TermEnableFilter ==
  /\ script.pc = "setup" /\ nops < MaxTermSetup
  /\ ~bypass
  /\ bypass' = SIDEnableFilter(SIDState, FALSE).bypass
  /\ Done("enable_filter", 0, 0)
  /\ UNCHANGED <<envelope, wave, script, twin, extfilt>>

\* A whole clock call during the setup.
TermSetupClock(delta_t) ==
  /\ script.pc = "setup" /\ nops < MaxTermSetup
  /\ \E s \in {SIDClock(SIDState, delta_t)} :
       envelope' = s.envelope /\ wave' = s.wave
  /\ Done("setup clock", 0, delta_t)
  /\ UNCHANGED <<bypass, script, twin, extfilt>>

\* clock(delta_t) is entered: if (!delta_t) return; delta_t_flt is set.
TermEnter(delta_t) ==
  /\ script.pc = "setup"
  /\ script' = [script EXCEPT
                  !.pc = IF delta_t = 0 THEN "done" ELSE "outer",
                  !.delta_t = delta_t,
                  !.delta_t_flt = DeltaTFlt(bypass, delta_t)]
  /\ Done("clock", 0, delta_t)
  /\ UNCHANGED <<envelope, wave, bypass, twin, extfilt>>

\* while (delta_t > 0), true: clamp delta_t_flt, clock the envelopes and
\* enter the oscillator loop.
TermOuter ==
  /\ script.pc = "outer" /\ script.delta_t > 0
  /\ \E flt \in {IF script.delta_t < script.delta_t_flt
                   THEN script.delta_t ELSE script.delta_t_flt} :
       /\ script' = [script EXCEPT !.pc = "osc", !.delta_t_flt = flt,
                                   !.delta_t_osc = flt]
       /\ \E e0 \in {EnvClock(envelope[0], flt)},
             e1 \in {EnvClock(envelope[1], flt)},
             e2 \in {EnvClock(envelope[2], flt)} :
            envelope' = (0 :> e0) @@ (1 :> e1) @@ (2 :> e2)
  /\ UNCHANGED <<wave, bypass, op, nops, twin, extfilt>>

\* while (delta_t > 0), false: the function returns.
TermReturn ==
  /\ script.pc = "outer" /\ ~(script.delta_t > 0)
  /\ script' = [script EXCEPT !.pc = "done"]
  /\ UNCHANGED <<envelope, wave, bypass, op, nops, twin, extfilt>>

\* while (delta_t_osc > 0), true: one pass of the oscillator loop.
TermOsc ==
  /\ script.pc = "osc" /\ script.delta_t_osc > 0
  /\ \E m \in {DeltaTMin(wave, script.delta_t_osc)} :
       /\ wave' = SynchronizeOscillators(ClockOscillators(wave, m))
       /\ script' = [script EXCEPT
                       !.delta_t_osc = @ - m,
                       !.delta_t_min = m,
                       !.elapsed = @ + m,
                       !.calls = @ + 1,
                       !.least = IF script.calls = 0 \/ m < @ THEN m ELSE @]
  /\ UNCHANGED <<envelope, bypass, op, nops, twin, extfilt>>

\* while (delta_t_osc > 0), false: filter.clock, delta_t -= delta_t_flt.
TermFilter ==
  /\ script.pc = "osc" /\ ~(script.delta_t_osc > 0)
  /\ script' = [script EXCEPT !.pc = "outer",
                              !.delta_t = @ - script.delta_t_flt,
                              !.filtered = @ + script.delta_t_flt]
  /\ UNCHANGED <<envelope, wave, bypass, op, nops, twin, extfilt>>

\* The steps of the clock call.
TermRun ==
  \/ \E delta_t \in TermDeltas : TermEnter(delta_t)
  \/ TermOuter
  \/ TermReturn
  \/ TermOsc
  \/ TermFilter

NextTerm ==
  \/ \E freq \in TermFreqs : TermWriteFREQ(freq)
  \/ TermWriteCONTROL_REG
  \/ TermEnableFilter
  \/ \E delta_t \in TermSetupDeltas : TermSetupClock(delta_t)
  \/ TermRun

\* The call is made, and the processor keeps executing it.
SpecTerm == InitTerm /\ [][NextTerm]_vars /\ WF_vars(TermRun)

\* Every pass made so far advanced by at least one cycle, and the call ends
\* in the state the whole-call definition of clock gives.
TermAdvances ==
  /\ \A v \in Voices :
       wave[v].freq # 0 => DeltaTNext(wave[v].accumulator, wave[v].freq) >= 1
  /\ \A a \in TermAccumulators, f \in TermAllFreqs : DeltaTNext(a, f) >= 1
  /\ script.calls > 0 => script.delta_t_min >= 1 /\ script.least >= 1
  /\ script.pc = "osc" => script.delta_t_flt >= 1
  /\ script.pc \in {"outer", "osc"} =>
       script.elapsed + script.delta_t_osc + script.delta_t
         - (IF script.pc = "osc" THEN script.delta_t_flt ELSE 0) = op.arg
  /\ script.pc = "done" =>
       /\ SIDState = SIDClock(op.pre, op.arg)
       /\ script.elapsed = op.arg

\* C25: SID::clock(delta_t) terminates for every delta_t >= 0 and every
\* register state: each pass of the oscillator loop advances by
\* delta_t_min >= 1 (the distance to the next accumulator MSB toggle is never
\* 0) and each pass of the outer loop advances by delta_t_flt >= 1.
Thm_C25_ClockTerminates == []TermAdvances /\ <>(script.pc = "done")

\* A finished clock(20) with the filter on, in which an MSB toggle of the
\* sync source cut a window short after a single cycle.
Wit_C25_ClockTerminates ==
  /\ script.pc = "done" /\ op.arg = MaxTermCycles /\ ~bypass
  /\ script.calls > 3 /\ script.least = 1


\* The accumulator of w after k cycles of a step.
AccumulatorAfter(w, k) == (w.accumulator + k * w.freq) % 16777216

\* In an oscillator pass of m cycles no sync source toggles its MSB before
\* the last cycle.
MSBSteadyInside(ws, m) ==
  \A v \in Voices :
    IsSyncSource(ws, v) =>
      \A k \in 1 .. (m - 1) :
        Bit(AccumulatorAfter(ws[v], k), 23) = Bit(ws[v].accumulator, 23)

\* C27: for every oscillator step of delta_t_min cycles chosen by SID::clock
\* and every voice with freq != 0 whose sync destination has sync or ring_mod
\* set, bit 23 of that voice's accumulator keeps its value on every cycle
\* strictly inside the step: an MSB toggle of a sync source can happen only
\* on the last cycle of a step, and at most one toggle per step.
Thm_C27_ToggleOnLastCycle ==
  [][TermOsc => MSBSteadyInside(wave, script'.delta_t_min)]_vars

\* A pass of 7 cycles has ended on the cycle in which the MSB of voice 1, a
\* sync source, went from 0 to 1.
Wit_C27_ToggleOnLastCycle ==
  /\ script.pc = "osc" /\ script.delta_t_min = 7 /\ script.delta_t_osc = 1
  /\ IsSyncSource(wave, 0) /\ wave[0].msb_rising
  /\ wave[0].accumulator < 8388608 + wave[0].freq

\* The oscillator loop has ended and filter.clock(delta_t_flt, ...) is the
\* next statement of the call.
AtFilterClock == script.pc = "osc" /\ ~(script.delta_t_osc > 0)

\* C31: when the filter is not bypassed, every filter.clock call made by
\* SID::clock(delta_t) gets a sub-window length in 1..8, and the lengths of
\* one call sum to exactly delta_t; the voice outputs handed to the filter
\* are read only after all envelopes and oscillators have been advanced over
\* the whole sub-window.
Thm_C31_FilterWindows ==
  /\ AtFilterClock =>
       /\ ~bypass => script.delta_t_flt \in 1 .. 8
       /\ script.delta_t_osc = 0
       /\ script.filtered + script.delta_t_flt <= op.arg
       /\ SIDState = SIDClock(op.pre, script.filtered + script.delta_t_flt)
  /\ script.pc = "done" => script.filtered = op.arg

\* The third filter.clock call of clock(20) with the filter on is about to
\* be made, for the last 4 cycles, after a sync source cut a pass short.
Wit_C31_FilterWindows ==
  /\ AtFilterClock /\ ~bypass /\ op.arg = MaxTermCycles
  /\ script.filtered = 16 /\ script.delta_t_flt = 4
  /\ script.calls > 3 /\ SIDState # op.pre


(***************************************************************************)
(* SpecPhase: the step-wise clock call of SpecTerm after the host has set  *)
(* the frequency and the sync bit of each of the three voices, so that     *)
(* several oscillators are synchronized in the same pass.                  *)
(***************************************************************************)
MaxPhaseSetup == 7

PhaseFreqHiInputs == {0, 128, 255}

\* no sync, sync
PhaseControlInputs == {0, 2}

PhaseSetupDeltas == {124, 250}

\* The host writes FREQ_HI of voices 1, 2, 3 in turn.
PhaseWriteFREQ_HI(v, freq_hi) ==
  /\ script.pc = "setup" /\ nops = v
  /\ wave' = [wave EXCEPT ![v] = WaveWriteFREQ_HI(wave[v], freq_hi)]
  /\ Done("writeFREQ_HI", v, freq_hi)
  /\ UNCHANGED <<envelope, bypass, script, twin, extfilt>>

\* Then the control registers of voices 1, 2, 3.
PhaseWriteCONTROL_REG(v, control) ==
  /\ script.pc = "setup" /\ nops = 3 + v
  /\ \E s \in {VoiceWriteCONTROL_REG(SIDState, v, control)} :
       envelope' = s.envelope /\ wave' = s.wave
  /\ Done("writeCONTROL_REG", v, control)
  /\ UNCHANGED <<bypass, script, twin, extfilt>>

\* A whole clock call that brings the oscillators near an MSB toggle.
PhaseSetupClock(delta_t) ==
  /\ script.pc = "setup" /\ nops >= 6 /\ nops < MaxPhaseSetup
  /\ \E s \in {SIDClock(SIDState, delta_t)} :
       envelope' = s.envelope /\ wave' = s.wave
  /\ Done("setup clock", 0, delta_t)
  /\ UNCHANGED <<bypass, script, twin, extfilt>>

NextPhase ==
  \/ \E v \in Voices, freq_hi \in PhaseFreqHiInputs : PhaseWriteFREQ_HI(v, freq_hi)
  \/ \E v \in Voices, control \in PhaseControlInputs :
       PhaseWriteCONTROL_REG(v, control)
  \/ \E delta_t \in PhaseSetupDeltas : PhaseSetupClock(delta_t)
  \/ TermRun

SpecPhase == InitTerm /\ [][NextPhase]_vars

\* The orders in which three synchronize() calls can be made.
SyncOrders ==
  { o \in [1 .. 3 -> Voices] : \A i, j \in 1 .. 3 : i # j => o[i] # o[j] }

\* synchronize() of the voices o[1], o[2], o[3], one after the other.
SynchronizeInOrder(ws, o) ==
  LET ws1 == [ws  EXCEPT ![o[1]] = WaveSynchronize(ws, o[1])]
      ws2 == [ws1 EXCEPT ![o[2]] = WaveSynchronize(ws1, o[2])]
  IN        [ws2 EXCEPT ![o[3]] = WaveSynchronize(ws2, o[3])]

\* All three oscillators advance m cycles in parallel; then every one with
\* the sync bit whose source's MSB rose in that last cycle is set to 0.
ParallelStep(ws, m) ==
  LET clocked == [v \in Voices |-> WaveClock(ws[v], m)]
  IN  [v \in Voices |->
         IF clocked[v].sync /\ clocked[sync_source(v)].msb_rising
           THEN [clocked[v] EXCEPT !.accumulator = 0]
           ELSE clocked[v]]

\* C28: in every oscillator step of SID::clock all three waveform generators
\* are clocked before any synchronize() runs, no synchronize() reads
\* msb_rising of a generator not yet advanced to the same cycle, and the
\* resulting accumulators do not depend on the order in which the three
\* synchronize() calls are applied.
Thm_C28_TwoPhaseSync ==
  [][TermOsc =>
       /\ wave' = ParallelStep(wave, script'.delta_t_min)
       /\ \A o \in SyncOrders :
            SynchronizeInOrder(
              [v \in Voices |-> WaveClock(wave[v], script'.delta_t_min)], o)
              = wave']_vars

\* A 5-cycle pass in which voices 1 and 3 both raised their MSB and voices 2
\* and 1, their sync destinations, were both set to 0.
Wit_C28_TwoPhaseSync ==
  /\ script.pc = "osc" /\ script.delta_t_min = 5
  /\ wave[0].msb_rising /\ wave[2].msb_rising
  /\ wave[0].sync /\ wave[1].sync
  /\ wave[0].accumulator = 0 /\ wave[1].accumulator = 0
  /\ wave[2].accumulator > 8388608


(***************************************************************************)
(* SpecNoise: WaveformGenerator::clock of voice 1 called with any number   *)
(* of cycles, against the same interval taken one cycle at a time.         *)
(***************************************************************************)
MaxNoiseOps == 4

NoiseFreqHiInputs == {16, 128}

NoiseDeltas == {0, 2, 18, 31, 600}

InitNoise == Constructor /\ ExternalFilterConstructor /\ script = NoScript

NoiseWriteFREQ_HI(freq_hi) ==
  /\ nops < MaxNoiseOps
  /\ wave' = [wave EXCEPT ![0] = WaveWriteFREQ_HI(wave[0], freq_hi)]
  /\ Done("writeFREQ_HI", 0, freq_hi)
  /\ UNCHANGED <<envelope, bypass, script, twin, extfilt>>

\* voice1.wave.clock(delta_t)
NoiseClock(delta_t) ==
  /\ nops < MaxNoiseOps
  /\ \E w \in {WaveClock(wave[0], delta_t)} : wave' = [wave EXCEPT ![0] = w]
  /\ Done("wave.clock", 0, delta_t)
  /\ UNCHANGED <<envelope, bypass, script, twin, extfilt>>

NextNoise ==
  \/ \E freq_hi \in NoiseFreqHiInputs : NoiseWriteFREQ_HI(freq_hi)
  \/ \E delta_t \in NoiseDeltas : NoiseClock(delta_t)

SpecNoise == InitNoise /\ [][NextNoise]_vars

\* The cycles k of 1..delta_t on which accumulator bit 19 goes from 0 to 1
\* when w is stepped one cycle at a time.
Bit19Rises(w, delta_t) ==
  { k \in 1 .. delta_t :
      /\ Bit(AccumulatorAfter(w, k - 1), 19) = 0
      /\ Bit(AccumulatorAfter(w, k), 19) = 1 }

\* Bit 22 EOR bit 17 into bit 0, the rest one place to the left, 23 bits.
ShiftLeftFeedback(r) ==
  LET bits == [i \in 0 .. 22 |->
                 IF i = 0 THEN (IF Bit(r, 22) # Bit(r, 17) THEN 1 ELSE 0)
                 ELSE Bit(r, i - 1)]
      RECURSIVE Value(_)
      Value(i) == IF i > 22 THEN 0 ELSE bits[i] + 2 * Value(i + 1)
  IN  Value(0)

RECURSIVE ShiftTimes(_, _)
ShiftTimes(r, n) ==
  IF r >= 0 /\ n > 0 THEN ShiftTimes(ShiftLeftFeedback(r), n - 1) ELSE r

\* C29: WaveformGenerator::clock(delta_t) shifts the noise register exactly
\* as many times as accumulator bit 19 goes 0->1 when the same interval is
\* stepped one cycle at a time, for every accumulator, every freq and every
\* delta_t >= 0 (also when delta_t * freq exceeds 2^19); each shift computes
\* new bit0 = bit22 XOR bit17, shifts left by one and masks to 23 bits.
Orig_C29_ShiftCount ==
  op.name = "wave.clock" =>
    /\ WaveShifts(op.pre.wave[0].accumulator, op.arg * op.pre.wave[0].freq)
         = Cardinality(Bit19Rises(op.pre.wave[0], op.arg))
    /\ wave[0].shift_register =
         ShiftTimes(op.pre.wave[0].shift_register,
                    Cardinality(Bit19Rises(op.pre.wave[0], op.arg)))


(***************************************************************************)
(* SpecBulk: the envelope generator of voice 1 clocked in bulk, against    *)
(* the same number of single-cycle clocks.  The registers are written and  *)
(* the gate is turned on; one clock call takes the envelope through the    *)
(* attack; then the sustain level is rewritten, the gate turned off and    *)
(* the envelope clocked in any order.                                      *)
(***************************************************************************)
MaxBulkOps == 7

MaxBulkCycles == 1500

BulkADInputs == {0, 1}

BulkSRInputs == {0, 64, 240}

BulkAttackDeltas == {2290, 4000}

BulkDeltas == {0, 1, 8, MaxBulkCycles}

InitBulk ==
  Constructor /\ ExternalFilterConstructor
  /\ script = [pc |-> "write_ad", elapsed |-> 0, calls |-> 0]

BulkWriteATTACK_DECAY(attack_decay) ==
  /\ SyncStep("write_ad", "write_sr")
  /\ envelope' = [envelope EXCEPT
                    ![0] = EnvWriteATTACK_DECAY(envelope[0], attack_decay)]
  /\ Done("writeATTACK_DECAY", 0, attack_decay)
  /\ UNCHANGED <<wave, bypass, twin, extfilt>>

BulkWriteSUSTAIN_RELEASE(sustain_release) ==
  /\ script.pc \in {"write_sr", "play"} /\ nops < MaxBulkOps
  /\ script' = [script EXCEPT !.pc = IF @ = "write_sr" THEN "gate" ELSE @]
  /\ envelope' = [envelope EXCEPT
                    ![0] = EnvWriteSUSTAIN_RELEASE(envelope[0], sustain_release)]
  /\ Done("writeSUSTAIN_RELEASE", 0, sustain_release)
  /\ UNCHANGED <<wave, bypass, twin, extfilt>>

BulkWriteCONTROL_REG(control) ==
  /\ script.pc \in {"gate", "play"} /\ nops < MaxBulkOps
  /\ (control = 1) = (script.pc = "gate")
  /\ script' = [script EXCEPT !.pc = IF @ = "gate" THEN "attack" ELSE @]
  /\ envelope' = [envelope EXCEPT
                    ![0] = EnvWriteCONTROL_REG(envelope[0], control)]
  /\ Done("writeCONTROL_REG", 0, control)
  /\ UNCHANGED <<wave, bypass, twin, extfilt>>

\* envelope.clock(delta_t) of voice 1
BulkClock(delta_t) ==
  /\ script.pc \in {"attack", "play"} /\ nops < MaxBulkOps
  /\ (script.pc = "attack") = (delta_t \in BulkAttackDeltas)
  /\ script' = [script EXCEPT !.pc = "play", !.elapsed = @ + delta_t,
                              !.calls = @ + 1]
  /\ envelope' = [envelope EXCEPT ![0] = EnvClock(envelope[0], delta_t)]
  /\ Done("clock", 0, delta_t)
  /\ UNCHANGED <<wave, bypass, twin, extfilt>>

NextBulk ==
  \/ \E attack_decay \in BulkADInputs : BulkWriteATTACK_DECAY(attack_decay)
  \/ \E sustain_release \in BulkSRInputs :
       BulkWriteSUSTAIN_RELEASE(sustain_release)
  \/ \E control \in {0, 1} : BulkWriteCONTROL_REG(control)
  \/ \E delta_t \in BulkAttackDeltas \union BulkDeltas : BulkClock(delta_t)

SpecBulk == InitBulk /\ [][NextBulk]_vars

\* n successive clock(1) calls: L = [e, n], at most 4^k calls at level k.
RECURSIVE EnvCyclesLoop(_, _)
EnvCyclesLoop(L, k) ==
  IF L.n = 0 THEN L
  ELSE IF k = 0 THEN [e |-> EnvClock(L.e, 1), n |-> L.n - 1]
  ELSE LET Q(M) == EnvCyclesLoop(M, k - 1)
       IN  Q(Q(Q(Q(L))))

EnvClockCycles(e, n) == EnvCyclesLoop([e |-> e, n |-> n], Levels(n)).e

\* C30: for every reachable envelope state, every register setting and every
\* delta_t >= 0, EnvelopeGenerator::clock(delta_t) yields the same
\* envelope_counter, rate_counter, exponential_counter and state as delta_t
\* successive clock(1) calls.
Orig_C30_BulkEqualsCycles ==
  op.name = "clock" =>
    envelope[0] = EnvClockCycles(op.pre.envelope[0], op.arg)


(***************************************************************************)
(* SpecHost: the emulator's sound driver.  The CPU advances clk, stores to *)
(* SID registers, flushes the sample buffer once a frame and resets.  The  *)
(* driver state is h = [clk, sound, disabled, pdev, clkstep, fclk, sidclk, *)
(* bufptr]; the doubles clkstep and fclk are kept in quarter cycles.       *)
(* script.host holds h, script.last what the last store_sid did.           *)
(***************************************************************************)
BUFSIZE == 32768

MaxHostOps == 5

\* Quarter cycles of a whole number of cycles.
Quarters(n) == 4 * n

\* cycle_count(double): the fraction is dropped.
CycleCount(quarters) == CDiv(quarters, 4)

\* CYCLES_PER_SEC / speed for two sample rates: 22.25 and 20 cycles.
HostClkSteps == {89, 80}

HostTicks == {1, 50, 1000000}

\* FREQ_HI and CONTROL_REG of voice 1
HostAddrs == {1, 4}

HostBytes == {17}

\* SID::write for the registers of voice 1 that the host stores to.
SIDWrite(s, addr, byte) ==
  IF addr = 1 THEN [s EXCEPT !.wave[0] = WaveWriteFREQ_HI(s.wave[0], byte)]
  ELSE IF addr = 4 THEN VoiceWriteCONTROL_REG(s, 0, byte)
  ELSE s

\* closesid(msg) with a message: the device is closed, sound is turned off.
CloseSid(h) == [h EXCEPT !.pdev = FALSE, !.sound = FALSE]

\* initsid, the device opening: the sample clock and the SID clock start at
\* the current cycle.
InitSidOpened(h, clkstep) ==
  [h EXCEPT !.pdev = TRUE, !.clkstep = clkstep, !.fclk = Quarters(h.clk),
            !.sidclk = h.clk]

\* The sample loop of run_sid: R = [h, s, clocked], clocked the sum of the
\* cycle counts passed to sid.clock.
RECURSIVE RunSidLoop(_)
RunSidLoop(R) ==
  IF ~(R.h.fclk + R.h.clkstep <= Quarters(R.h.clk)) THEN R
  ELSE LET fclk == R.h.fclk + R.h.clkstep
           delta_t == CycleCount(fclk - Quarters(R.h.sidclk))
           h1 == [R.h EXCEPT !.fclk = fclk, !.bufptr = @ + 1]
       IN  RunSidLoop(
             IF delta_t > 0
               THEN [h |-> [h1 EXCEPT !.sidclk = @ + delta_t],
                     s |-> SIDClock(R.s, delta_t),
                     clocked |-> R.clocked + delta_t]
               ELSE [R EXCEPT !.h = h1])

\* Variant: the SID is clocked to the last sample only.
RunSidClockedNoTail(h, s) ==
  LET sample_count == (Quarters(h.clk) - h.fclk) \div h.clkstep
  IN  IF h.bufptr + sample_count > BUFSIZE
        THEN [h |-> CloseSid(h), s |-> s, clocked |-> 0, ret |-> 1]
        ELSE LET R == RunSidLoop([h |-> h, s |-> s, clocked |-> 0])
             IN  [h |-> [R.h EXCEPT !.sidclk = h.clk], s |-> R.s,
                  clocked |-> R.clocked, ret |-> 0]

\* run_sid with the device open: the buffer test, the sample loop, and
\* sid.clock(clk - siddata.sidclk); siddata.sidclk = clk.
RunSidClocked(h, s) ==
  LET sample_count == (Quarters(h.clk) - h.fclk) \div h.clkstep
  IN  IF h.bufptr + sample_count > BUFSIZE
        THEN [h |-> CloseSid(h), s |-> s, clocked |-> 0, ret |-> 1]
        ELSE LET R == RunSidLoop([h |-> h, s |-> s, clocked |-> 0])
             IN  [h |-> [R.h EXCEPT !.sidclk = h.clk],
                  s |-> SIDClock(R.s, h.clk - R.h.sidclk),
                  clocked |-> R.clocked + (h.clk - R.h.sidclk), ret |-> 0]

\* run_sid; opened tells whether the device opens when initsid is run, and
\* clkstep is the sample period it then sets.
RunSid(h, s, opened, clkstep) ==
  IF ~h.sound \/ h.disabled
    THEN [h |-> h, s |-> s, clocked |-> 0, ret |-> 1]
  ELSE IF ~h.pdev
    THEN IF opened THEN RunSidClocked(InitSidOpened(h, clkstep), s)
                   ELSE [h |-> CloseSid(h), s |-> s, clocked |-> 0, ret |-> 1]
  ELSE RunSidClocked(h, s)

HostStart ==
  [clk |-> 6, sound |-> TRUE, disabled |-> FALSE, pdev |-> FALSE,
   clkstep |-> 0, fclk |-> 0, sidclk |-> 0, bufptr |-> 0]

NoStore == [ret |-> 0, clocked |-> 0, sidclk |-> 0, pdev |-> FALSE]

InitHost ==
  /\ Constructor /\ ExternalFilterConstructor
  /\ script = [pc |-> "host", elapsed |-> 0, calls |-> 0, host |-> HostStart,
               last |-> NoStore]

\* The CPU executes cycles.
HostTick(d) ==
  /\ nops < MaxHostOps
  /\ script' = [script EXCEPT !.host.clk = @ + d]
  /\ Done("tick", 0, d)
  /\ UNCHANGED <<envelope, wave, bypass, twin, extfilt>>

\* The user turns sound on or off.
HostSetSound(on) ==
  /\ nops < MaxHostOps
  /\ script.host.sound # on
  /\ script' = [script EXCEPT !.host.sound = on]
  /\ Done("sound", 0, IF on THEN 1 ELSE 0)
  /\ UNCHANGED <<envelope, wave, bypass, twin, extfilt>>

\* store_sid: run_sid, then sid.write.  script.last keeps the return value
\* of run_sid, the cycles it passed to sid.clock, and sidclk and pdev at the
\* call.
HostStoreSid(addr, byte, opened, clkstep) ==
  /\ nops < MaxHostOps
  /\ \E R \in {RunSid(script.host, SIDState, opened, clkstep)} :
       /\ \E s \in {SIDWrite(R.s, addr, byte)} :
            envelope' = s.envelope /\ wave' = s.wave
       /\ script' = [script EXCEPT
                       !.host = R.h, !.calls = @ + 1,
                       !.last = [ret |-> R.ret, clocked |-> R.clocked,
                                 sidclk |-> script.host.sidclk,
                                 pdev |-> script.host.pdev]]
  /\ Done("store_sid", addr, byte)
  /\ UNCHANGED <<bypass, twin, extfilt>>

\* flush_sound: run_sid, then the buffered fragments go to the device, which
\* may fail (closesid) or make the driver suspend itself (suspendsid); the
\* sample period is adjusted to the device's buffer fill.
HostFlushSound(opened, clkstep, outcome) ==
  /\ nops < MaxHostOps
  /\ \E R \in {RunSid([script.host EXCEPT !.disabled = FALSE], SIDState,
                      opened, clkstep)} :
       /\ envelope' = R.s.envelope /\ wave' = R.s.wave
       /\ script' = [script EXCEPT !.host =
            IF R.ret # 0 THEN R.h
            ELSE IF outcome = "failed" THEN CloseSid(R.h)
            ELSE IF outcome = "suspended"
              THEN [R.h EXCEPT !.pdev = FALSE, !.disabled = TRUE]
            ELSE [R.h EXCEPT !.bufptr = 0, !.clkstep = clkstep]]
  /\ Done("flush_sound", 0, 0)
  /\ UNCHANGED <<bypass, twin, extfilt>>

\* reset_sid; the CPU reset that calls it then sets clk = 6.
HostResetSid ==
  /\ nops < MaxHostOps
  /\ \E s \in {SIDReset(SIDState)} :
       envelope' = s.envelope /\ wave' = s.wave
  /\ script' = [script EXCEPT !.host.fclk = 0, !.host.sidclk = 0,
                              !.host.clk = 6]
  /\ Done("reset_sid", 0, 0)
  /\ UNCHANGED <<bypass, twin, extfilt>>

NextHost ==
  \/ \E d \in HostTicks : HostTick(d)
  \/ \E on \in BOOLEAN : HostSetSound(on)
  \/ \E addr \in HostAddrs, byte \in HostBytes, opened \in BOOLEAN,
        clkstep \in HostClkSteps : HostStoreSid(addr, byte, opened, clkstep)
  \/ \E opened \in BOOLEAN, clkstep \in HostClkSteps,
        outcome \in {"written", "failed", "suspended"} :
          HostFlushSound(opened, clkstep, outcome)
  \/ HostResetSid

SpecHost == InitHost /\ [][NextHost]_vars

\* C26: on every store_sid call the SID has been clocked up to the current
\* CPU cycle before sid.write is applied (siddata.sidclk == clk at the write,
\* and the cycle counts passed to sid.clock since the previous call sum to
\* the elapsed clk difference).
Orig_C26_WriteAtCycle ==
  op.name = "store_sid" =>
    /\ script.host.sidclk = script.host.clk
    /\ script.last.pdev =>
         script.last.clocked = script.host.clk - script.last.sidclk

\* C26 as the code has it: on every store_sid call in which run_sid returns
\* 0 (sound is on, the driver is not suspended, the device is or gets open,
\* the sample buffer does not overflow) siddata.sidclk == clk at the write,
\* and with the device already open the cycle counts passed to sid.clock sum
\* to clk - sidclk of before the call; a device opened in the call starts the
\* SID clock at clk and passes 0 cycles.  When run_sid returns 1 the SID is
\* not clocked and the write is applied all the same.
Thm_C26_WriteAtCycle ==
  op.name = "store_sid" =>
    /\ script.last.ret = 0 =>
         /\ script.host.sidclk = script.host.clk
         /\ script.last.clocked =
              IF script.last.pdev THEN script.host.clk - script.last.sidclk
              ELSE 0
    /\ script.last.ret # 0 =>
         /\ script.last.clocked = 0
         /\ script.host.sidclk = script.last.sidclk
         /\ ~script.host.sound \/ script.host.disabled
         /\ SIDState = SIDWrite(op.pre, op.voice, op.arg)

\* A store 50 cycles after the last one with the device open: two samples
\* are taken and the SID is clocked three times, 50 cycles in all.
Wit_C26_WriteAtCycle ==
  /\ op.name = "store_sid" /\ script.last.ret = 0 /\ script.last.pdev
  /\ script.last.clocked = 50 /\ script.host.bufptr = 2
  /\ script.host.fclk # Quarters(script.host.clk)


(***************************************************************************)
(* SpecChunk: ExternalFilter::clock(delta_t, vi) taken one loop pass at a  *)
(* time.  A few whole clock calls and enable_filter calls bring the filter *)
(* into some state; then one clock(delta_t, vi) call runs pass by pass.    *)
(* script holds the call's delta_t and vi and counts the updates made with *)
(* the MAX_CYCLES coefficients (chunks) and the single-cycle ones          *)
(* (singles).                                                              *)
(***************************************************************************)
MaxChunkSetup == 2

MaxChunkCycles == 37

ChunkSetupDeltas == {7, 2000}

ChunkInputs == {-32768, 16384, 32767}

ChunkDeltas == {0, 9, 10, MaxChunkCycles}

ChunkIdle ==
  [pc |-> "setup", elapsed |-> 0, calls |-> 0, delta_t |-> 0, vi |-> 0,
   chunks |-> 0, singles |-> 0]

InitChunk == Constructor /\ ExternalFilterConstructor /\ script = ChunkIdle

ChunkEnableFilter(enable) ==
  /\ script.pc = "setup" /\ nops < MaxChunkSetup
  /\ extfilt.enabled # enable
  /\ extfilt' = ExtEnableFilter(extfilt, enable)
  /\ ExtDone("enable_filter", 0, IF enable THEN 1 ELSE 0)
  /\ UNCHANGED <<envelope, wave, bypass, script, twin>>

\* A whole clock call during the setup.
ChunkSetupClock(delta_t, vi) ==
  /\ script.pc = "setup" /\ nops < MaxChunkSetup
  /\ extfilt' = ExtClock(extfilt, delta_t, vi)
  /\ ExtDone("setup clock", delta_t, vi)
  /\ UNCHANGED <<envelope, wave, bypass, script, twin>>

\* clock(delta_t, vi) is entered: a disabled filter passes vi through and
\* returns.
ChunkEnter(delta_t, vi) ==
  /\ script.pc = "setup"
  /\ script' = [script EXCEPT
                  !.pc = IF extfilt.enabled THEN "while" ELSE "done",
                  !.delta_t = delta_t, !.vi = vi]
  /\ extfilt' = IF extfilt.enabled THEN extfilt
                ELSE [extfilt EXCEPT !.vlp = vi * 2048, !.vhp = 0]
  /\ ExtDone("clock(delta_t, vi)", delta_t, vi)
  /\ UNCHANGED <<envelope, wave, bypass, twin>>

\* while (delta_t), false: the function returns.
ChunkReturn ==
  /\ script.pc = "while" /\ script.delta_t = 0
  /\ script' = [script EXCEPT !.pc = "done"]
  /\ UNCHANGED <<envelope, wave, bypass, op, nops, twin, extfilt>>

\* while (delta_t), true, and delta_t < MAX_CYCLES: on to the inner loop.
ChunkBelowMax ==
  /\ script.pc = "while" /\ script.delta_t # 0
  /\ script.delta_t < MAX_CYCLES
  /\ script' = [script EXCEPT !.pc = "inner"]
  /\ UNCHANGED <<envelope, wave, bypass, op, nops, twin, extfilt>>

\* while (delta_t), true, and delta_t >= MAX_CYCLES: one update with tmax,
\* delta_t -= MAX_CYCLES.
ChunkMax ==
  /\ script.pc = "while" /\ script.delta_t # 0
  /\ ~(script.delta_t < MAX_CYCLES)
  /\ extfilt' = ExtUpdate(extfilt, tmax, script.vi)
  /\ script' = [script EXCEPT !.delta_t = @ - MAX_CYCLES,
                              !.chunks = @ + 1,
                              !.elapsed = @ + MAX_CYCLES]
  /\ UNCHANGED <<envelope, wave, bypass, op, nops, twin>>

\* while (delta_t--), true: clock(vi).
ChunkSingle ==
  /\ script.pc = "inner" /\ script.delta_t # 0
  /\ extfilt' = ExtClockOne(extfilt, script.vi)
  /\ script' = [script EXCEPT !.delta_t = @ - 1,
                              !.singles = @ + 1,
                              !.elapsed = @ + 1]
  /\ UNCHANGED <<envelope, wave, bypass, op, nops, twin>>

\* while (delta_t--), false: delta_t is decremented once more; break.
ChunkBreak ==
  /\ script.pc = "inner" /\ script.delta_t = 0
  /\ script' = [script EXCEPT !.pc = "done", !.delta_t = @ - 1]
  /\ UNCHANGED <<envelope, wave, bypass, op, nops, twin, extfilt>>

\* The steps of the clock call.
ChunkRun ==
  \/ \E delta_t \in ChunkDeltas, vi \in ChunkInputs : ChunkEnter(delta_t, vi)
  \/ ChunkReturn
  \/ ChunkBelowMax
  \/ ChunkMax
  \/ ChunkSingle
  \/ ChunkBreak

NextChunk ==
  \/ \E enable \in BOOLEAN : ChunkEnableFilter(enable)
  \/ \E delta_t \in ChunkSetupDeltas, vi \in ChunkInputs :
       ChunkSetupClock(delta_t, vi)
  \/ ChunkRun

\* The call is made, and the processor keeps executing it.
SpecChunk == InitChunk /\ [][NextChunk]_vars /\ WF_vars(ChunkRun)

\* The updates made so far: MAX_CYCLES updates first, single-cycle updates
\* only once fewer than MAX_CYCLES cycles are left, and at the end
\* floor(delta_t / 10) of the first and delta_t mod 10 of the second.
ChunkCounts ==
  /\ script.pc \in {"while", "inner"} =>
       /\ op.pre.enabled
       /\ script.elapsed + script.delta_t = op.voice
       /\ script.chunks = script.elapsed \div MAX_CYCLES
       /\ script.singles = script.elapsed % MAX_CYCLES
       /\ script.singles > 0 => script.chunks = op.voice \div MAX_CYCLES
  /\ (script.pc = "done" /\ op.pre.enabled) =>
       /\ script.chunks = op.voice \div MAX_CYCLES
       /\ script.singles = op.voice % MAX_CYCLES
       /\ script.elapsed = op.voice
  /\ script.pc = "done" => extfilt = ExtClock(op.pre, op.voice, op.arg)

\* In the step being taken vhp moves towards the vlp of before the step, and
\* vlp towards the input, with the coefficient set c.
UpdatedFromOld(c) ==
  /\ extfilt'.vhp = extfilt.vhp
       + ShiftRight(c.mulhp * (extfilt.vlp - extfilt.vhp), c.shifthp)
  /\ extfilt'.vlp = extfilt.vlp
       + ShiftRight(c.mullp * ((script.vi * 2048) - extfilt.vlp), c.shiftlp)

\* C34: ExternalFilter::clock(delta_t, vi) with the filter enabled
\* terminates for every delta_t >= 0 after exactly floor(delta_t / 10)
\* updates with the MAX_CYCLES coefficient set followed by delta_t mod 10
\* single-cycle updates; in each update Vhp is computed from the value Vlp
\* had before that update's Vlp change.
Thm_C34_ChunkedClock ==
  /\ []ChunkCounts
  /\ [][(ChunkMax => UpdatedFromOld(tmax))
          /\ (ChunkSingle => UpdatedFromOld(t1))]_vars
  /\ <>(script.pc = "done")

\* A finished clock(37, vi) of an enabled filter whose two states differed:
\* three updates with the MAX_CYCLES coefficients, then seven single ones.
Wit_C34_ChunkedClock ==
  /\ script.pc = "done" /\ op.pre.enabled /\ op.voice = MaxChunkCycles
  /\ script.chunks = 3 /\ script.singles = 7
  /\ op.pre.vlp # op.pre.vhp /\ op.pre.vhp # 0
  /\ extfilt.vhp # op.pre.vhp /\ extfilt.vlp # op.pre.vlp


(***************************************************************************)
(* SpecStale: the step-wise clock call of SpecTerm after a sync source was *)
(* stopped by its test bit.  The host writes the frequencies of voice 1    *)
(* (index 0) and of voice 2 (index 1), its sync destination, and the       *)
(* control register of voice 2; a clock call runs the oscillators; then    *)
(* the control register of voice 1 is written, with or without the test    *)
(* bit, and the chip is clocked again.                                     *)
(***************************************************************************)
MaxStaleSetup == 6

StaleSourceFreqHi == {128, 255}

StaleDestFreqHi == {0, 16}

\* no sync, sync
StaleDestControls == {0, 2}

\* sawtooth, sawtooth + test
StaleSourceControls == {32, 40}

\* 256 cycles take an accumulator at FREQ_HI 0x80 from 0 to 0x800000.
StaleSetupDeltas == {100, 256}

StaleWriteSourceFREQ_HI(freq_hi) ==
  /\ script.pc = "setup" /\ nops = 0
  /\ wave' = [wave EXCEPT ![0] = WaveWriteFREQ_HI(wave[0], freq_hi)]
  /\ Done("writeFREQ_HI", 0, freq_hi)
  /\ UNCHANGED <<envelope, bypass, script, twin, extfilt>>

StaleWriteDestFREQ_HI(freq_hi) ==
  /\ script.pc = "setup" /\ nops = 1
  /\ wave' = [wave EXCEPT ![1] = WaveWriteFREQ_HI(wave[1], freq_hi)]
  /\ Done("writeFREQ_HI", 1, freq_hi)
  /\ UNCHANGED <<envelope, bypass, script, twin, extfilt>>

StaleWriteDestCONTROL_REG(control) ==
  /\ script.pc = "setup" /\ nops = 2
  /\ \E s \in {VoiceWriteCONTROL_REG(SIDState, 1, control)} :
       envelope' = s.envelope /\ wave' = s.wave
  /\ Done("writeCONTROL_REG", 1, control)
  /\ UNCHANGED <<bypass, script, twin, extfilt>>

\* A whole clock call, before the source's control register is written and
\* after it.
StaleSetupClock(delta_t) ==
  /\ script.pc = "setup"
  /\ nops = 3 \/ (nops >= 5 /\ nops < MaxStaleSetup)
  /\ \E s \in {SIDClock(SIDState, delta_t)} :
       envelope' = s.envelope /\ wave' = s.wave
  /\ Done("setup clock", 0, delta_t)
  /\ UNCHANGED <<bypass, script, twin, extfilt>>

StaleWriteSourceCONTROL_REG(control) ==
  /\ script.pc = "setup" /\ nops = 4
  /\ \E s \in {VoiceWriteCONTROL_REG(SIDState, 0, control)} :
       envelope' = s.envelope /\ wave' = s.wave
  /\ Done("writeCONTROL_REG", 0, control)
  /\ UNCHANGED <<bypass, script, twin, extfilt>>

NextStale ==
  \/ \E freq_hi \in StaleSourceFreqHi : StaleWriteSourceFREQ_HI(freq_hi)
  \/ \E freq_hi \in StaleDestFreqHi : StaleWriteDestFREQ_HI(freq_hi)
  \/ \E control \in StaleDestControls : StaleWriteDestCONTROL_REG(control)
  \/ \E delta_t \in StaleSetupDeltas : StaleSetupClock(delta_t)
  \/ \E control \in StaleSourceControls : StaleWriteSourceCONTROL_REG(control)
  \/ TermRun

SpecStale == InitTerm /\ [][NextStale]_vars

\* synchronize() of voice v assigns accumulator = 0 in an oscillator pass of
\* m cycles from ws.
SynchronizeZeroes(ws, m, v) ==
  LET clocked == ClockOscillators(ws, m)
  IN  clocked[v].sync /\ clocked[sync_source(v)].msb_rising

\* Bit 23 of voice v's accumulator is 0 in ws and 1 after the m cycles of the
\* pass.
MSBRoseInPass(ws, m, v) ==
  /\ Bit(ws[v].accumulator, 23) = 0
  /\ Bit(ClockOscillators(ws, m)[v].accumulator, 23) = 1

\* C35: synchronize() zeroes a destination accumulator only in an
\* oscillator step in which its sync source's accumulator bit 23 really
\* changed from 0 to 1: msb_rising never stays true from an earlier step,
\* in particular not while the source is held by its test bit after a
\* CONTROL write set test.
Orig_C35_NoStaleSync ==
  [][TermOsc =>
       \A v \in Voices :
         SynchronizeZeroes(wave, script'.delta_t_min, v) =>
           MSBRoseInPass(wave, script'.delta_t_min, sync_source(v))]_vars


(***************************************************************************)
(* SpecSdl: the ring buffer of the SDL sound device.  The emulator thread  *)
(* calls sdl_write and the audio thread calls sdl_callback; the two run    *)
(* interleaved, and every read and every write of the other thread's       *)
(* pointer is a step of its own.  script holds sdl_buf, sdl_inptr and      *)
(* sdl_outptr, the local variables of the two functions (w, r) and the     *)
(* bookkeeping of the samples: the samples are numbered 1, 2, ... as they  *)
(* are written; published counts those sdl_inptr has been moved past,      *)
(* delivered those copied to the stream.                                   *)
(***************************************************************************)
SdlFragsize == 2

SdlFragnr == 1

\* sdl_init: sdl_len = (*fragsize)*(*fragnr) + 1
sdl_len == (SdlFragsize * SdlFragnr) + 1

MaxSdlSamples == 8

\* The values nr of sdl_write(s, pbuf, nr).
SdlWriteSizes == {1, SdlFragsize}

\* sdl_init has opened the device: both pointers 0, the buffer allocated
\* (sample number 0 stands for its unwritten content), no call under way.
InitSdl ==
  /\ Constructor /\ ExternalFilterConstructor
  /\ script = [pc |-> "sdl", elapsed |-> 0, calls |-> 0,
               sdl_buf |-> [i \in 0 .. (sdl_len - 1) |-> 0],
               sdl_inptr |-> 0, sdl_outptr |-> 0,
               w |-> [pc |-> "idle", total |-> 0, amount |-> 0, nr |-> 0],
               r |-> [pc |-> "idle", total |-> 0, amount |-> 0],
               written |-> 0, published |-> 0, delivered |-> 0,
               in_order |-> TRUE, overwrote |-> FALSE]

SdlStep(next) ==
  /\ script' = next
  /\ UNCHANGED <<envelope, wave, bypass, op, nops, twin, extfilt>>

\* sdl_write(s, pbuf, nr) is called: total = 0.
SdlWriteCall(nr) ==
  /\ script.w.pc = "idle" /\ script.written + nr <= MaxSdlSamples
  /\ SdlStep([script EXCEPT !.w = [pc |-> "amount", total |-> 0,
                                  amount |-> 0, nr |-> nr],
                            !.calls = @ + 1])

\* amount = sdl_outptr - sdl_inptr; if (amount <= 0) amount = sdl_len -
\* sdl_inptr: one read of sdl_outptr.
SdlWriteAmount ==
  /\ script.w.pc = "amount"
  /\ \E amount \in {script.sdl_outptr - script.sdl_inptr} :
       SdlStep([script EXCEPT
                  !.w.amount = IF amount <= 0 THEN sdl_len - script.sdl_inptr
                               ELSE amount,
                  !.w.pc = "full"])

\* if ((sdl_inptr + amount)%sdl_len == sdl_outptr) amount--: a second read
\* of sdl_outptr.  With nothing to write the loop sleeps and starts over;
\* else amount is cut to the samples left.
SdlWriteFull ==
  /\ script.w.pc = "full"
  /\ \E amount \in {IF (script.sdl_inptr + script.w.amount) % sdl_len
                         = script.sdl_outptr
                      THEN script.w.amount - 1 ELSE script.w.amount} :
       SdlStep([script EXCEPT
                  !.w.amount = IF amount > 0
                                    /\ script.w.total + amount > script.w.nr
                                 THEN script.w.nr - script.w.total
                               ELSE amount,
                  !.w.pc = IF amount <= 0 THEN "amount" ELSE "copy"])

\* memcpy(sdl_buf + sdl_inptr, pbuf + total, amount*sizeof(s16_t))
SdlWriteCopy ==
  /\ script.w.pc = "copy"
  /\ LET slots == script.sdl_inptr .. (script.sdl_inptr + script.w.amount - 1)
     IN  SdlStep([script EXCEPT
                    !.sdl_buf = [i \in 0 .. (sdl_len - 1) |->
                                   IF i \in slots
                                     THEN script.written + 1
                                            + (i - script.sdl_inptr)
                                     ELSE script.sdl_buf[i]],
                    !.written = @ + script.w.amount,
                    !.overwrote = @ \/ \E i \in slots :
                                         /\ i < sdl_len
                                         /\ script.sdl_buf[i] > script.delivered,
                    !.w.pc = "add"])

\* sdl_inptr += amount; total += amount
SdlWriteAdd ==
  /\ script.w.pc = "add"
  /\ SdlStep([script EXCEPT !.sdl_inptr = @ + script.w.amount,
                            !.published = @ + script.w.amount,
                            !.w.total = @ + script.w.amount,
                            !.w.pc = "wrap"])

\* if (sdl_inptr == sdl_len) sdl_inptr = 0; then while (total < nr)
SdlWriteWrap ==
  /\ script.w.pc = "wrap"
  /\ SdlStep([script EXCEPT
                !.sdl_inptr = IF @ = sdl_len THEN 0 ELSE @,
                !.w.pc = IF script.w.total < script.w.nr THEN "amount"
                         ELSE "idle"])

\* SDL calls sdl_callback for len/sizeof(s16_t) = fragsize samples.
SdlCallbackCall ==
  /\ script.r.pc = "idle" /\ script.delivered < MaxSdlSamples
  /\ SdlStep([script EXCEPT !.r = [pc |-> "amount", total |-> 0,
                                  amount |-> 0]])

\* amount = sdl_inptr - sdl_outptr; if (amount < 0) amount = sdl_len -
\* sdl_outptr; the cut to the samples asked for: one read of sdl_inptr.
\* With amount 0 the device is open, the loop sleeps and starts over.
SdlCallbackAmount ==
  /\ script.r.pc = "amount"
  /\ \E a0 \in {script.sdl_inptr - script.sdl_outptr} :
     \E a1 \in {IF a0 < 0 THEN sdl_len - script.sdl_outptr ELSE a0} :
     \E amount \in {IF a1 + script.r.total > SdlFragsize
                      THEN SdlFragsize - script.r.total ELSE a1} :
       SdlStep([script EXCEPT
                  !.r.amount = amount,
                  !.r.pc = IF amount = 0 THEN "amount" ELSE "copy"])

\* memcpy(stream + total, sdl_buf + sdl_outptr, amount); total += amount.  A
\* sample is in order when it is the one after the last delivered.
SdlCallbackCopy ==
  /\ script.r.pc = "copy"
  /\ LET slots == script.sdl_outptr .. (script.sdl_outptr + script.r.amount - 1)
     IN  SdlStep([script EXCEPT
                    !.delivered = @ + script.r.amount,
                    !.in_order = @ /\ \A i \in slots :
                                       /\ i < sdl_len
                                       /\ script.sdl_buf[i] = script.delivered + 1
                                            + (i - script.sdl_outptr),
                    !.r.total = @ + script.r.amount,
                    !.r.pc = "add"])

\* sdl_outptr += amount
SdlCallbackAdd ==
  /\ script.r.pc = "add"
  /\ SdlStep([script EXCEPT !.sdl_outptr = @ + script.r.amount,
                            !.r.pc = "wrap"])

\* if (sdl_outptr == sdl_len) sdl_outptr = 0; then while (total < ...)
SdlCallbackWrap ==
  /\ script.r.pc = "wrap"
  /\ SdlStep([script EXCEPT
                !.sdl_outptr = IF @ = sdl_len THEN 0 ELSE @,
                !.r.pc = IF script.r.total < SdlFragsize THEN "amount"
                         ELSE "idle"])

\* sdl_bufferstatus: the samples the device takes to be in the buffer.
sdl_bufferstatus ==
  LET amount == script.sdl_inptr - script.sdl_outptr
  IN  IF amount < 0 THEN amount + sdl_len ELSE amount

NextSdl ==
  \/ \E nr \in SdlWriteSizes : SdlWriteCall(nr)
  \/ SdlWriteAmount
  \/ SdlWriteFull
  \/ SdlWriteCopy
  \/ SdlWriteAdd
  \/ SdlWriteWrap
  \/ SdlCallbackCall
  \/ SdlCallbackAmount
  \/ SdlCallbackCopy
  \/ SdlCallbackAdd
  \/ SdlCallbackWrap

SpecSdl == InitSdl /\ [][NextSdl]_vars

\* C38: under every interleaving of the producer sdl_write and the consumer
\* sdl_callback, with each read and write of sdl_inptr and sdl_outptr a
\* separate atomic step, every sample written is delivered to the callback
\* exactly once and in order; the producer never overwrites unread samples
\* and never advances sdl_inptr onto sdl_outptr so that a full buffer is
\* taken for an empty one.
Orig_C38_RingBuffer ==
  /\ script.in_order
  /\ script.delivered <= script.published
  /\ ~script.overwrote
  /\ (script.w.pc \in {"idle", "amount", "full", "copy"}
        /\ sdl_bufferstatus = 0) =>
       script.published = script.delivered

-----------------------------------------------------------------------------
\* SpecSuspend: the sound driver's suspend_sound() and resume_sound(), with
\* the heap block of the fade-out buffer p.  suspend_sound runs step by
\* step (script.pc); script.p is the state of the block p points to
\* ("none" before xmalloc, "allocated", "released" after free), script.buf
\* what the code stored in it, script.handed the state of the block at the
\* moment pdev->write received the pointer, script.sent what the device
\* got.  siddata is the driver's static state, all zero before a device is
\* opened.

MaxSuspendCalls == 4
SuspendFragsizes == {2, 4}
SuspendSamples == {-32768, -3, 0, 5, 32767}
SuspendReturns == {0, 1}

InitSuspend ==
  /\ Constructor /\ ExternalFilterConstructor
  /\ script = [pc |-> "idle", elapsed |-> 0, calls |-> 0,
               pdev |-> FALSE, write |-> FALSE, suspend |-> FALSE,
               resume |-> FALSE, issuspended |-> 0, fragsize |-> 0,
               lastsample |-> 0, p |-> "none", buf |-> <<>>,
               handed |-> "none", sent |-> "nothing"]

SuspendStep(next) ==
  /\ script' = next
  /\ UNCHANGED <<envelope, wave, bypass, op, nops, twin, extfilt>>

\* initsid() opens a device: pdev, fragsize (a power of two), issuspended
\* = -1, lastsample = 0.  write, suspend and resume say which of the
\* device's function pointers are set.
SuspendInitsid(write, suspend, resume, fragsize) ==
  /\ script.pc = "idle" /\ ~script.pdev
  /\ script.calls < MaxSuspendCalls
  /\ SuspendStep([script EXCEPT !.pdev = TRUE, !.write = write,
                               !.suspend = suspend, !.resume = resume,
                               !.fragsize = fragsize, !.issuspended = -1,
                               !.lastsample = 0, !.calls = @ + 1])

\* resume_sound() on driver state s; ret is what pdev->resume returns.
ResumeSound(s, ret) ==
  IF s.pdev
  THEN IF s.resume /\ s.issuspended = 1
       THEN [s EXCEPT !.issuspended = IF ret # 0 THEN 1 ELSE 0]
       ELSE [s EXCEPT !.issuspended = 0]
  ELSE s

resume_sound(ret) ==
  /\ script.pc = "idle" /\ script.calls < MaxSuspendCalls
  /\ SuspendStep([ResumeSound(script, ret) EXCEPT !.calls = @ + 1])

\* flush_sound() with a device that plays: resume_sound(), then
\* pdev->write(buffer, nr) with last sample v; a failed write closes the
\* device (closesid: pdev = NULL), a good one stores lastsample.
SuspendFlushSound(v, rret, wret) ==
  /\ script.pc = "idle" /\ script.pdev /\ script.write
  /\ script.calls < MaxSuspendCalls
  /\ \E s \in {ResumeSound(script, rret)} :
       SuspendStep(IF wret # 0
                   THEN [s EXCEPT !.pdev = FALSE, !.calls = @ + 1]
                   ELSE [s EXCEPT !.lastsample = v, !.calls = @ + 1])

\* suspend_sound() is called: without a device it returns; with a write
\* function and issuspended == 0 it goes on to the fade-out, else to the
\* device's suspend.
SuspendEnter ==
  /\ script.pc = "idle" /\ script.calls < MaxSuspendCalls
  /\ SuspendStep([script EXCEPT
       !.pc = IF ~script.pdev THEN "idle"
              ELSE IF script.write /\ script.issuspended = 0 THEN "malloc"
              ELSE "suspend",
       !.p = "none", !.buf = <<>>, !.handed = "none", !.sent = "nothing",
       !.calls = @ + 1])

\* p = xmalloc(fragsize*sizeof(s16_t)); if (!p) return;
SuspendMalloc(ok) ==
  /\ script.pc = "malloc"
  /\ SuspendStep(IF ok THEN [script EXCEPT !.pc = "fill", !.p = "allocated"]
                 ELSE [script EXCEPT !.pc = "idle"])

\* (short)(v - (float)v*i/fragsize): v*i and the quotient by a power of
\* two are exact in float, and the conversion to short truncates.
FadeOut(v, i, fragsize) == CDiv(v * (fragsize - i), fragsize)

\* v = lastsample; for (i = 0; i < fragsize; i++) p[i] = ...
SuspendFill ==
  /\ script.pc = "fill"
  /\ SuspendStep([script EXCEPT
       !.pc = "free",
       !.buf = [i \in 1 .. script.fragsize |->
                  FadeOut(script.lastsample, i - 1, script.fragsize)]])

\* free(p);
SuspendFree ==
  /\ script.pc = "free"
  /\ SuspendStep([script EXCEPT !.pc = "write", !.p = "released"])

\* i = pdev->write(&siddata.sid, p, fragsize); if (i) return;  The device
\* reads fragsize samples through p.  Of an allocated block it gets the
\* stored samples; reading a released block is undefined: it may still get
\* the stored samples, get other data, or fault.
SuspendWrite(ret, outcome) ==
  /\ script.pc = "write"
  /\ outcome \in (IF script.p = "allocated" THEN {"fade"}
                  ELSE {"fade", "garbage", "fault"})
  /\ SuspendStep([script EXCEPT
       !.pc = IF outcome = "fault" THEN "fault"
              ELSE IF ret # 0 THEN "idle" ELSE "suspend",
       !.handed = script.p, !.sent = outcome])

\* if (pdev->suspend && issuspended == 0) { i = pdev->suspend(); if (i)
\* return; }  issuspended = 1;
SuspendDevice(ret) ==
  /\ script.pc = "suspend"
  /\ SuspendStep(IF script.suspend /\ script.issuspended = 0 /\ ret # 0
                 THEN [script EXCEPT !.pc = "idle"]
                 ELSE [script EXCEPT !.pc = "idle", !.issuspended = 1])

NextSuspend ==
  \/ \E write \in BOOLEAN, suspend \in BOOLEAN, resume \in BOOLEAN,
        fragsize \in SuspendFragsizes :
       SuspendInitsid(write, suspend, resume, fragsize)
  \/ \E ret \in SuspendReturns : resume_sound(ret)
  \/ \E v \in SuspendSamples, rret \in SuspendReturns,
        wret \in SuspendReturns : SuspendFlushSound(v, rret, wret)
  \/ SuspendEnter
  \/ \E ok \in BOOLEAN : SuspendMalloc(ok)
  \/ SuspendFill
  \/ SuspendFree
  \/ \E ret \in SuspendReturns, outcome \in {"fade", "garbage", "fault"} :
       SuspendWrite(ret, outcome)
  \/ \E ret \in SuspendReturns : SuspendDevice(ret)

SpecSuspend == InitSuspend /\ [][NextSuspend]_vars

\* C39: whenever suspend_sound has handed the fade-out buffer to
\* pdev->write, the block was still allocated at that call (it is released
\* only after the call returns), so the device got the fade-out samples.
Orig_C39_WriteGetsLiveBuffer ==
  script.handed # "none" =>
    (script.handed = "allocated" /\ script.sent = "fade")

=============================================================================
